---- MODULE Spec2Model ----
(***************************************************************************)
(* Model of XwAI-FastMCP: the Claude tool-use orchestrators                *)
(* (tools/claude.py ask_claude_with_tools, tools/direct_claude_slite.py    *)
(* get_claude_response), the Slite gateway client and method translator    *)
(* (tools/slite.py) and the result processor (result_processor.py).        *)
(***************************************************************************)
EXTENDS Integers, Sequences, FiniteSets, TLC

VARIABLES
    \* ---- one orchestration run ----
    pc,              \* position of the run: start, model1, gw_init, gw_ask, model2, done
    query,           \* the user's question
    variant,         \* which orchestrator runs: "claude" or "direct"
    api_key,         \* TRUE when a Claude API key is configured
    force_tool_use,  \* caller forces the knowledge tool (tool_choice)
    show_reasoning,  \* get_claude_response(show_reasoning=...)
    response,        \* first model response
    kb_query,        \* query sent to the gateway
    tool_result,     \* tool_result block of the follow-up request
    followup,        \* follow-up model response
    result,          \* value returned by the run
    raised,          \* TRUE when the run ended by an uncaught exception
    requests,        \* external requests issued by the run, in order
    gw_outcome,      \* outcome of the tools/call exchange with the gateway
    answers,         \* what the model endpoint and the gateway answered, in order
    \* ---- SliteMethodTranslator ----
    translations_count,
    errors_count,
    last_error,
    tr_request,      \* request of the last __call__
    tr_returned,     \* value returned by the last __call__
    tr_before,       \* counters before the last __call__
    tr_calls,        \* number of __call__ made
    \* ---- ResultProcessor ----
    heap,            \* Python objects by reference
    rp_op,           \* last ResultProcessor operation
    rp_src,          \* source payload as it was when the operation was called
    rp_ret,          \* reference returned by the operation
    rp_steps,        \* number of caller mutations done
    \* ---- SliteMCPClient ----
    gc_op,           \* last client operation
    gc_exchange,     \* what the HTTP exchange of that operation produced
    gc_sent,         \* JSON-RPC requests sent by that operation
    gc_out,          \* how the operation ended: value returned or exception raised
    gc_prev,         \* exchange and outcome of the call_method before
    \* ---- two runs on the same inputs and the same external answers ----
    cmp_run,         \* 1: first run, 2: the run with show_reasoning switched
    cmp_first,       \* requests, answers and outcome of the first run
    \* ---- several runs on one event loop ----
    conc_cur,        \* the run that is executing
    conc_saved,      \* local state of every suspended run
    \* ---- translate calls in flight on one SliteMethodTranslator ----
    tk               \* the calls made: request, whether it has run, what it returned

orchVars == <<pc, query, variant, api_key, force_tool_use, show_reasoning, response,
              kb_query, tool_result, followup, result, raised, requests, gw_outcome,
              answers>>
trVars == <<translations_count, errors_count, last_error, tr_request,
            tr_returned, tr_before, tr_calls>>
rpVars == <<heap, rp_op, rp_src, rp_ret, rp_steps>>
gcVars == <<gc_op, gc_exchange, gc_sent, gc_out, gc_prev>>
cmpVars == <<cmp_run, cmp_first>>
concVars == <<conc_cur, conc_saved>>
vars == <<orchVars, trVars, rpVars, gcVars, cmpVars, concVars, tk>>

-----------------------------------------------------------------------------
(* Bounds *)

MaxBlocks == 2         \* content blocks in the first model response
MaxFollowBlocks == 2   \* content blocks in the follow-up model response
MaxCalls == 3          \* translator calls in one behaviour
NumRuns == 2           \* orchestration runs on one event loop
MaxTasks == 3          \* translate calls in flight on one translator
MaxMutations == 2      \* caller mutations of a returned mapping

-----------------------------------------------------------------------------
(* Python / JSON values.  A mapping keeps its pairs in insertion order. *)

Null == [k |-> "null"]
Str(s) == [k |-> "str", s |-> s]
Num(n) == [k |-> "num", n |-> n]
Bool(b) == [k |-> "bool", b |-> b]
List(xs) == [k |-> "list", items |-> xs]
Dict(ps) == [k |-> "dict", pairs |-> ps]
KV(key, val) == [key |-> key, val |-> val]

IsStr(v) == v.k = "str"
IsDict(v) == v.k = "dict"
IsList(v) == v.k = "list"

\* "key in d" for a mapping d
HasKey(d, key) == \E i \in 1..Len(d.pairs) : d.pairs[i].key = key

\* d[key]
DictAt(d, key) == d.pairs[CHOOSE i \in 1..Len(d.pairs) : d.pairs[i].key = key].val

\* d.get(key, default)
DictGet(d, key, default) == IF HasKey(d, key) THEN DictAt(d, key) ELSE default

\* d[key] = val (keeps the position of an existing key, appends a new one)
DictSet(d, key, val) ==
    IF HasKey(d, key)
    THEN Dict([i \in 1..Len(d.pairs) |->
                 IF d.pairs[i].key = key THEN KV(key, val) ELSE d.pairs[i]])
    ELSE Dict(Append(d.pairs, KV(key, val)))

\* Python truthiness (bool(v))
Truthy(v) ==
    CASE v.k = "null" -> FALSE
      [] v.k = "str"  -> v.s # ""
      [] v.k = "num"  -> v.n # 0
      [] v.k = "bool" -> v.b
      [] v.k = "list" -> v.items # <<>>
      [] v.k = "dict" -> v.pairs # <<>>

Digits == <<"0", "1", "2", "3", "4", "5", "6", "7", "8", "9">>
NumStr(n) == Digits[n + 1]

RECURSIVE json_dumps(_)
RECURSIVE DumpItems(_, _)
RECURSIVE DumpPairs(_, _)

\* json.dumps(v)
json_dumps(v) ==
    CASE v.k = "null" -> "null"
      [] v.k = "str"  -> "\"" \o v.s \o "\""
      [] v.k = "num"  -> NumStr(v.n)
      [] v.k = "bool" -> IF v.b THEN "true" ELSE "false"
      [] v.k = "list" -> "[" \o DumpItems(v.items, 1) \o "]"
      [] v.k = "dict" -> "{" \o DumpPairs(v.pairs, 1) \o "}"

DumpItems(xs, i) ==
    IF i > Len(xs) THEN ""
    ELSE json_dumps(xs[i]) \o (IF i < Len(xs) THEN ", " ELSE "") \o DumpItems(xs, i + 1)

DumpPairs(ps, i) ==
    IF i > Len(ps) THEN ""
    ELSE "\"" \o ps[i].key \o "\": " \o json_dumps(ps[i].val)
         \o (IF i < Len(ps) THEN ", " ELSE "") \o DumpPairs(ps, i + 1)

RECURSIVE py_repr(_)
RECURSIVE ReprItems(_, _)
RECURSIVE ReprPairs(_, _)

\* repr(v)
py_repr(v) ==
    CASE v.k = "null" -> "None"
      [] v.k = "str"  -> "'" \o v.s \o "'"
      [] v.k = "num"  -> NumStr(v.n)
      [] v.k = "bool" -> IF v.b THEN "True" ELSE "False"
      [] v.k = "list" -> "[" \o ReprItems(v.items, 1) \o "]"
      [] v.k = "dict" -> "{" \o ReprPairs(v.pairs, 1) \o "}"

ReprItems(xs, i) ==
    IF i > Len(xs) THEN ""
    ELSE py_repr(xs[i]) \o (IF i < Len(xs) THEN ", " ELSE "") \o ReprItems(xs, i + 1)

ReprPairs(ps, i) ==
    IF i > Len(ps) THEN ""
    ELSE "'" \o ps[i].key \o "': " \o py_repr(ps[i].val)
         \o (IF i < Len(ps) THEN ", " ELSE "") \o ReprPairs(ps, i + 1)

\* str(v)
py_str(v) == IF v.k = "str" THEN v.s ELSE py_repr(v)

TypeName(v) ==
    CASE v.k = "null" -> "NoneType"
      [] v.k = "str"  -> "str"
      [] v.k = "num"  -> "int"
      [] v.k = "bool" -> "bool"
      [] v.k = "list" -> "list"
      [] v.k = "dict" -> "dict"

\* Outcome of a call: a returned value or a raised exception with its str(e)
Return(v) == [ok |-> TRUE, val |-> v]
Raise(m) == [ok |-> FALSE, msg |-> m]

-----------------------------------------------------------------------------
(* tools/slite.py: SliteMCPClient *)

\* What the HTTP exchange of call_method produced
HttpError(m) == [kind |-> "http_error", msg |-> m]
BadJson(m) == [kind |-> "bad_json", msg |-> m]
JsonBody(body) == [kind |-> "json", body |-> body]

\* raise exc(m)
RaiseAs(exc, m) == [ok |-> FALSE, msg |-> m, exc |-> exc]

\* variant: the error field of the response is not looked at
call_method_unchecked(exchange) ==
    CASE exchange.kind = "http_error" ->
            RaiseAs("ValueError", "HTTP error: " \o exchange.msg)
      [] exchange.kind = "bad_json" -> RaiseAs("JSONDecodeError", exchange.msg)
      [] exchange.kind = "json" -> Return(exchange.body)

\* SliteMCPClient.call_method, given what the HTTP exchange produced
call_method(exchange) ==
    CASE exchange.kind = "http_error" ->
            RaiseAs("ValueError", "HTTP error: " \o exchange.msg)
      [] exchange.kind = "bad_json" -> RaiseAs("JSONDecodeError", exchange.msg)
      [] exchange.kind = "json" ->
            IF HasKey(exchange.body, "error")
            THEN LET error == DictAt(exchange.body, "error") IN
                 IF IsDict(error)
                 THEN RaiseAs("ValueError", "Slite-MCP error: "
                            \o py_str(DictGet(error, "message", Str("Unknown error"))))
                 ELSE RaiseAs("ValueError", "Unexpected error: '" \o TypeName(error)
                            \o "' object has no attribute 'get'")
            ELSE Return(exchange.body)

\* SliteMCPClient.call_tool: the result field, or the failure as a mapping
call_tool(exchange) ==
    LET r == call_method(exchange) IN
    IF r.ok THEN DictGet(r.val, "result", Dict(<<>>))
    ELSE Dict(<<KV("error", Str(r.msg))>>)

\* SliteMCPClient.initialize
initialize(exchange) ==
    LET r == call_method(exchange) IN
    IF r.ok THEN DictGet(r.val, "result", Dict(<<>>))
    ELSE Dict(<<KV("error", Str(r.msg))>>)

\* SliteMCPClient.list_tools
list_tools(exchange) ==
    LET r == call_method(exchange) IN
    IF ~r.ok THEN List(<<>>)
    ELSE LET res == DictGet(r.val, "result", Dict(<<>>)) IN
         IF IsDict(res) THEN DictGet(res, "tools", List(<<>>)) ELSE List(<<>>)

\* SliteMCPClient.search_notes
search_notes(exchange) == call_tool(exchange)

\* SliteMCPClient.ask_slite
ask_slite(exchange) == call_tool(exchange)

\* SliteMCPClient.get_note
get_note(exchange) == call_tool(exchange)

\* params of the tools/call request that call_tool sends
ToolCallParams(tool_name, tool_args) ==
    Dict(<<KV("name", Str(tool_name)), KV("arguments", tool_args)>>)

SearchArgs(q, limit) == Dict(<<KV("query", q), KV("limit", limit)>>)
GetNoteArgs(note_id) == Dict(<<KV("noteId", note_id)>>)

\* the JSON-RPC request call_method posts
RpcRequest(method, params) ==
    [jsonrpc |-> "2.0", id |-> "xwai", method |-> method, params |-> params]

\* params of the tools/call request that ask_slite sends
AskParams(question) ==
    Dict(<<KV("name", Str("ask-slite")),
           KV("arguments", Dict(<<KV("question", question)>>))>>)

InitializeParams ==
    Dict(<<KV("protocolVersion", Str("2025-03-26")),
           KV("clientInfo", Dict(<<KV("name", Str("XwAI FastMCP")),
                                   KV("version", Str("0.1.0"))>>)),
           KV("capabilities",
              Dict(<<KV("tools", Dict(<<KV("execute", Bool(TRUE))>>))>>))>>)

\* module-level slite_ask, after its initialize exchange: the ask exchange
slite_ask(exchange) == ask_slite(exchange)

-----------------------------------------------------------------------------
(* tools/claude.py and tools/direct_claude_slite.py: the orchestrators *)

KnowledgeToolName == "company_knowledge"
ClaudeModel == "claude-3-7-sonnet-20250219"

TextBlock(t) == [type |-> "text", text |-> t]
ToolUseBlock(id, name, input) ==
    [type |-> "tool_use", id |-> id, name |-> name, input |-> input]

\* variant: stops after the first text block
ConcatTextFirstOnly(blocks, i) ==
    IF \E j \in i..Len(blocks) : blocks[j].type = "text"
    THEN blocks[CHOOSE j \in i..Len(blocks) :
                  /\ blocks[j].type = "text"
                  /\ \A h \in i..(j - 1) : blocks[h].type # "text"].text
    ELSE ""

RECURSIVE ConcatText(_, _)
\* for content in blocks: if content.type == "text": acc += content.text
ConcatText(blocks, i) ==
    IF i > Len(blocks) THEN ""
    ELSE (IF blocks[i].type = "text" THEN blocks[i].text ELSE "")
         \o ConcatText(blocks, i + 1)

\* variant: the scan does not stop at the first tool_use block
LastToolUse(blocks) ==
    IF \E i \in 1..Len(blocks) : blocks[i].type = "tool_use"
    THEN CHOOSE i \in 1..Len(blocks) :
            /\ blocks[i].type = "tool_use"
            /\ \A j \in (i + 1)..Len(blocks) : blocks[j].type # "tool_use"
    ELSE 0

\* index of the first block of type tool_use, 0 when there is none
FirstToolUse(blocks) ==
    IF \E i \in 1..Len(blocks) : blocks[i].type = "tool_use"
    THEN CHOOSE i \in 1..Len(blocks) :
            /\ blocks[i].type = "tool_use"
            /\ \A j \in 1..(i - 1) : blocks[j].type # "tool_use"
    ELSE 0

\* the text of the first item of kb_result["content"] that is a mapping with a
\* text key; None when there is none
FirstContentText(kb_result) ==
    IF IsDict(kb_result) /\ HasKey(kb_result, "content")
    THEN LET content_list == DictAt(kb_result, "content") IN
         IF IsList(content_list)
         THEN LET hits == {i \in 1..Len(content_list.items) :
                              /\ IsDict(content_list.items[i])
                              /\ HasKey(content_list.items[i], "text")} IN
              IF hits = {} THEN Null
              ELSE DictAt(content_list.items[CHOOSE i \in hits :
                                               \A j \in hits : i <= j], "text")
         ELSE Null
    ELSE Null

\* v[:n] succeeds on text and sequences only
Sliceable(v) == v.k \in {"str", "list"}
SliceError(v) ==
    IF IsDict(v) THEN "unhashable type: 'slice'"
    ELSE "'" \o TypeName(v) \o "' object is not subscriptable"

\* variant: the text found in the payload is sent without the str() coercion
ClaudeResultTextUncoerced(kb_result) ==
    LET first == FirstContentText(kb_result)
        result_text == IF ~Truthy(first) THEN kb_result ELSE first
    IN  Return(result_text)

\* ask_claude_with_tools: from the gateway payload to the tool result text
ClaudeResultText(kb_result) ==
    LET first == FirstContentText(kb_result)
        result_text == IF ~Truthy(first) THEN Str(json_dumps(kb_result)) ELSE first
    IN  IF ~Sliceable(result_text) THEN Raise(SliceError(result_text))
        ELSE IF ~IsStr(result_text) THEN Return(Str(py_str(result_text)))
        ELSE Return(result_text)

\* query_knowledge_base, given the payload slite_ask returned
query_knowledge_base(payload) ==
    LET content == FirstContentText(payload) IN
    IF Truthy(content)
    THEN IF ~Sliceable(content)
         THEN Str("Error retrieving knowledge: " \o SliceError(content))
         ELSE content
    ELSE Str(json_dumps(payload))

\* get_claude_response: from the gateway payload to the tool result text
DirectResultText(payload) ==
    LET kb_result == query_knowledge_base(payload) IN
    IF ~IsStr(kb_result) THEN Return(Str(py_str(kb_result))) ELSE Return(kb_result)

ToolResultBlock(tool_use_id, content) ==
    [type |-> "tool_result", tool_use_id |-> tool_use_id, content |-> content]

ToolChoice == Dict(<<KV("type", Str("tool")), KV("name", Str(KnowledgeToolName))>>)

Message(role, content) == [role |-> role, content |-> content]
Blocks(bs) == [k |-> "blocks", blocks |-> bs]

ModelRequest(messages, tool_choice) ==
    [to |-> "model", tool_choice |-> tool_choice, messages |-> messages]
GatewayRequest(method, params) ==
    [to |-> "gateway", method |-> method, params |-> params]

\* variant: tool_choice is sent whether or not the caller forces the tool
FirstRequestAlwaysForced(q, force) ==
    ModelRequest(<<Message("user", Str(q))>>, ToolChoice)

FirstRequest(q, force) ==
    ModelRequest(<<Message("user", Str(q))>>, IF force THEN ToolChoice ELSE Null)

\* variant: the assistant message keeps the tool_use blocks only
FollowupRequestToolUseOnly(q, resp, tr) ==
    ModelRequest(<<Message("user", Str(q)),
                   Message("assistant",
                           Blocks(SelectSeq(resp.content, LAMBDA b : b.type = "tool_use"))),
                   Message("user", Blocks(<<tr>>))>>, Null)

FollowupRequest(q, resp, tr) ==
    ModelRequest(<<Message("user", Str(q)),
                   Message("assistant", Blocks(resp.content)),
                   Message("user", Blocks(<<tr>>))>>, Null)

ErrorResult(m) == Dict(<<KV("error", Str(m))>>)

\* result of a run that used no tool
PlainResult(resp) ==
    Dict(<<KV("response", Str(ConcatText(resp.content, 1))),
           KV("model", Str(ClaudeModel)),
           KV("tool_used", Bool(FALSE))>>)

\* variant: the answer is taken from the first response, not from the follow-up
ToolResultFromFirst(v, resp, follow, kbq, tr, reasoning) ==
    Dict(<<KV("response", Str(ConcatText(resp.content, 1))),
           KV("model", Str(ClaudeModel)),
           KV("tool_used", Bool(TRUE)),
           KV("knowledge_query", kbq)>>)

\* result of a run that used the knowledge tool
ToolResult(v, resp, follow, kbq, tr, reasoning) ==
    LET base == <<KV("response", Str(ConcatText(follow, 1))),
                  KV("model", Str(ClaudeModel)),
                  KV("tool_used", Bool(TRUE))>> IN
    IF v = "claude" THEN Dict(base)
    ELSE LET r == Append(base, KV("knowledge_query", kbq)) IN
         IF reasoning
         THEN Dict(r \o <<KV("reasoning", Str(ConcatText(resp.content, 1))),
                          KV("knowledge_result", tr.content)>>)
         ELSE Dict(r)

-----------------------------------------------------------------------------
(* Inputs of a run: what the model endpoint and the gateway answer *)

Queries == {"hours?"}
ModelErrors == {"overloaded"}

SeqsUpTo(S, n) == UNION {[1..m -> S] : m \in 0..n}

FirstBlocks ==
    { TextBlock("a"), TextBlock("b"),
      ToolUseBlock("tu1", KnowledgeToolName, Dict(<<KV("query", Str("office hours"))>>)),
      ToolUseBlock("tu2", KnowledgeToolName, Dict(<<>>)),
      ToolUseBlock("tu3", "weather", Dict(<<KV("query", Str("rain"))>>)) }

FirstResponses ==
    [stop_reason : {"end_turn", "tool_use"}, content : SeqsUpTo(FirstBlocks, MaxBlocks)]

FollowBlocks ==
    { TextBlock("x"), TextBlock("y"),
      ToolUseBlock("tu9", KnowledgeToolName, Dict(<<KV("query", Str("more"))>>)) }

FollowContents == SeqsUpTo(FollowBlocks, MaxFollowBlocks)

TextItem(v) == Dict(<<KV("type", Str("text")), KV("text", v)>>)

\* result fields of a gateway response
GatewayPayloads ==
    { Dict(<<KV("content", List(<<TextItem(Str("9-5"))>>))>>),
      Dict(<<KV("content", List(<<TextItem(Str("9")), TextItem(Str("-5"))>>))>>),
      Dict(<<KV("content", List(<<>>))>>),
      Dict(<<KV("content", List(<<TextItem(Str(""))>>))>>),
      Dict(<<KV("content", List(<<TextItem(Num(5))>>))>>),
      Dict(<<KV("content", List(<<TextItem(List(<<Str("9-5")>>))>>))>>),
      Dict(<<KV("content", Str("9-5"))>>),
      Dict(<<KV("answer", Str("9-5"))>>),
      Dict(<<KV("error", Str("no such note"))>>),
      List(<<Str("9-5")>>),
      Str("9-5"),
      Null }

GatewayExchanges ==
    { HttpError("timeout"), BadJson("Expecting value"),
      JsonBody(Dict(<<>>)),
      JsonBody(Dict(<<KV("error", Dict(<<KV("message", Str("not found"))>>))>>)),
      JsonBody(Dict(<<KV("error", Dict(<<>>))>>)),
      JsonBody(Dict(<<KV("error", Str("boom"))>>)) }
    \cup { JsonBody(Dict(<<KV("result", p)>>)) : p \in GatewayPayloads }

InitExchanges == { HttpError("refused"), JsonBody(Dict(<<KV("result", Dict(<<>>))>>)) }

None == [k |-> "none"]

\* one answer of the outside world to a request of the run
FirstReply(resp) == [kind |-> "first_reply", response |-> resp]
FollowReply(content) == [kind |-> "follow_reply", content |-> content]
ModelFailure(m) == [kind |-> "model_error", msg |-> m]
GatewayAnswer(exchange) == [kind |-> "exchange", exchange |-> exchange]

-----------------------------------------------------------------------------
(* One orchestration run *)

InitOrch ==
    /\ pc = "start"
    /\ query \in Queries
    /\ variant \in {"claude", "direct"}
    /\ api_key \in BOOLEAN
    /\ force_tool_use \in BOOLEAN
    /\ show_reasoning \in (IF variant = "direct" THEN BOOLEAN ELSE {FALSE})
    /\ response = None
    /\ kb_query = None
    /\ tool_result = None
    /\ followup = None
    /\ result = None
    /\ raised = FALSE
    /\ requests = <<>>
    /\ gw_outcome = None
    /\ answers = <<>>

IdleOrch ==
    /\ pc = "idle" /\ query = "" /\ variant = "claude" /\ api_key = FALSE
    /\ force_tool_use = FALSE /\ show_reasoning = FALSE
    /\ response = None /\ kb_query = None /\ tool_result = None /\ followup = None
    /\ result = None /\ raised = FALSE /\ requests = <<>> /\ gw_outcome = None
    /\ answers = <<>>

\* variant: no handler at the boundary of the run
CatchNothing(outcome) == outcome

\* except Exception as e: return {"error": "Error calling Claude API: ..."}
CatchOuter(outcome) ==
    IF outcome.ok THEN outcome
    ELSE Return(ErrorResult("Error calling Claude API: " \o outcome.msg))

\* ask_claude_with_tools, inner handler around the gateway call and the follow-up
CatchInner(outcome) ==
    IF outcome.ok THEN outcome
    ELSE Return(ErrorResult("Error querying knowledge base: " \o outcome.msg))

\* the run ends: it returns a value or an exception leaves it
End(outcome) ==
    /\ pc' = "done"
    /\ IF outcome.ok THEN result' = outcome.val /\ raised' = FALSE
       ELSE result' = None /\ raised' = TRUE

\* entry of the run up to the first model request
Start ==
    /\ pc = "start"
    /\ IF ~api_key
       THEN /\ End(Return(ErrorResult("Claude API key not found")))
            /\ UNCHANGED requests
       ELSE /\ requests' = Append(requests, FirstRequest(query, force_tool_use))
            /\ pc' = "model1"
            /\ UNCHANGED <<result, raised>>
    /\ UNCHANGED <<query, variant, api_key, force_tool_use, show_reasoning, response,
                   kb_query, tool_result, followup, gw_outcome, answers>>
    /\ UNCHANGED <<trVars, rpVars, gcVars, cmpVars, concVars, tk>>

\* the first model request returns resp: inspection of the stop reason and of
\* the tool request, up to the initialize request of slite_ask
ModelFirstReply(resp) ==
    /\ pc = "model1"
    /\ answers' = Append(answers, FirstReply(resp))
    /\ response' = resp
    /\ IF resp.stop_reason = "tool_use"
       THEN LET i == FirstToolUse(resp.content) IN
            IF i # 0 /\ resp.content[i].name = KnowledgeToolName
            THEN /\ kb_query' = DictGet(resp.content[i].input, "query", Str(query))
                 /\ requests' = Append(requests,
                                       GatewayRequest("initialize", InitializeParams))
                 /\ pc' = "gw_init"
                 /\ UNCHANGED <<result, raised>>
            ELSE /\ End(CatchOuter(Return(ErrorResult("Unsupported tool requested: "
                             \o (IF i # 0 THEN resp.content[i].name ELSE "None")))))
                 /\ UNCHANGED <<kb_query, requests>>
       ELSE /\ End(CatchOuter(Return(PlainResult(resp))))
            /\ UNCHANGED <<kb_query, requests>>
    /\ UNCHANGED <<query, variant, api_key, force_tool_use, show_reasoning,
                   tool_result, followup, gw_outcome>>
    /\ UNCHANGED <<trVars, rpVars, gcVars, cmpVars, concVars, tk>>

\* variant: a failed first request is sent once more
ModelFirstFailRetried(m) ==
    /\ pc = "model1"
    /\ answers' = Append(answers, ModelFailure(m))
    /\ IF Len(requests) < 2
       THEN /\ requests' = Append(requests, FirstRequest(query, force_tool_use))
            /\ UNCHANGED <<pc, result, raised>>
       ELSE /\ End(CatchOuter(Raise(m)))
            /\ UNCHANGED requests
    /\ UNCHANGED <<query, variant, api_key, force_tool_use, show_reasoning, response,
                   kb_query, tool_result, followup, gw_outcome>>
    /\ UNCHANGED <<trVars, rpVars, gcVars, cmpVars, concVars, tk>>

\* the first model request raises
ModelFirstFail(m) ==
    /\ pc = "model1"
    /\ answers' = Append(answers, ModelFailure(m))
    /\ End(CatchOuter(Raise(m)))
    /\ UNCHANGED <<query, variant, api_key, force_tool_use, show_reasoning, response,
                   kb_query, tool_result, followup, requests, gw_outcome>>
    /\ UNCHANGED <<trVars, rpVars, gcVars, cmpVars, concVars, tk>>

\* variant: a failed initialize exchange is tried once more
GatewayInitReplyRetrying(exchange) ==
    /\ pc = "gw_init"
    /\ answers' = Append(answers, GatewayAnswer(exchange))
    /\ IF exchange.kind = "http_error" /\ Len(requests) < 3
       THEN /\ requests' = Append(requests,
                                  GatewayRequest("initialize", InitializeParams))
            /\ UNCHANGED pc
       ELSE /\ requests' = Append(requests,
                                  GatewayRequest("tools/call", AskParams(kb_query)))
            /\ pc' = "gw_ask"
    /\ UNCHANGED <<query, variant, api_key, force_tool_use, show_reasoning, response,
                   kb_query, tool_result, followup, result, raised, gw_outcome>>
    /\ UNCHANGED <<trVars, rpVars, gcVars, cmpVars, concVars, tk>>

\* slite_ask: the initialize exchange ends (its result and its failure are both
\* dropped), and ask_slite sends the tools/call request
GatewayInitReply(exchange) ==
    /\ pc = "gw_init"
    /\ answers' = Append(answers, GatewayAnswer(exchange))
    /\ requests' = Append(requests, GatewayRequest("tools/call", AskParams(kb_query)))
    /\ pc' = "gw_ask"
    /\ UNCHANGED <<query, variant, api_key, force_tool_use, show_reasoning, response,
                   kb_query, tool_result, followup, result, raised, gw_outcome>>
    /\ UNCHANGED <<trVars, rpVars, gcVars, cmpVars, concVars, tk>>

\* slite_ask returns: the payload becomes the tool result text and the
\* follow-up request is sent, or the run ends
GatewayAskReply(exchange) ==
    /\ pc = "gw_ask"
    /\ answers' = Append(answers, GatewayAnswer(exchange))
    /\ gw_outcome' = exchange
    /\ LET kb_result == slite_ask(exchange)
           text == IF variant = "claude" THEN ClaudeResultText(kb_result)
                   ELSE DirectResultText(kb_result)
           tool_use == response.content[FirstToolUse(response.content)]
       IN IF text.ok
          THEN /\ tool_result' = ToolResultBlock(tool_use.id, text.val)
               /\ requests' = Append(requests,
                      FollowupRequest(query, response, tool_result'))
               /\ pc' = "model2"
               /\ UNCHANGED <<result, raised>>
          ELSE /\ End(CatchOuter(IF variant = "claude" THEN CatchInner(text) ELSE text))
               /\ UNCHANGED <<tool_result, requests>>
    /\ UNCHANGED <<query, variant, api_key, force_tool_use, show_reasoning, response,
                   kb_query, followup>>
    /\ UNCHANGED <<trVars, rpVars, gcVars, cmpVars, concVars, tk>>

\* variant: with show_reasoning the answer is taken from the first response
ModelFollowReplyReasoned(content) ==
    /\ pc = "model2"
    /\ answers' = Append(answers, FollowReply(content))
    /\ followup' = Blocks(content)
    /\ End(CatchOuter(Return(ToolResult(variant, response,
                                        IF show_reasoning THEN response.content ELSE content,
                                        kb_query, tool_result, show_reasoning))))
    /\ UNCHANGED <<query, variant, api_key, force_tool_use, show_reasoning, response,
                   kb_query, tool_result, requests, gw_outcome>>
    /\ UNCHANGED <<trVars, rpVars, gcVars, cmpVars, concVars, tk>>

\* the follow-up model request returns
ModelFollowReply(content) ==
    /\ pc = "model2"
    /\ answers' = Append(answers, FollowReply(content))
    /\ followup' = Blocks(content)
    /\ End(CatchOuter(Return(ToolResult(variant, response, content, kb_query,
                                        tool_result, show_reasoning))))
    /\ UNCHANGED <<query, variant, api_key, force_tool_use, show_reasoning, response,
                   kb_query, tool_result, requests, gw_outcome>>
    /\ UNCHANGED <<trVars, rpVars, gcVars, cmpVars, concVars, tk>>

\* the follow-up model request raises
ModelFollowFail(m) ==
    /\ pc = "model2"
    /\ answers' = Append(answers, ModelFailure(m))
    /\ End(CatchOuter(IF variant = "claude" THEN CatchInner(Raise(m)) ELSE Raise(m)))
    /\ UNCHANGED <<query, variant, api_key, force_tool_use, show_reasoning, response,
                   kb_query, tool_result, followup, requests, gw_outcome>>
    /\ UNCHANGED <<trVars, rpVars, gcVars, cmpVars, concVars, tk>>

NextOrch ==
    \/ Start
    \/ \E resp \in FirstResponses : ModelFirstReply(resp)
    \/ \E m \in ModelErrors : ModelFirstFail(m)
    \/ \E x \in InitExchanges : GatewayInitReply(x)
    \/ \E x \in GatewayExchanges : GatewayAskReply(x)
    \/ \E c \in FollowContents : ModelFollowReply(c)
    \/ \E m \in ModelErrors : ModelFollowFail(m)

\* ---- the same call once more, show_reasoning switched ----

\* the first run has ended: its requests, answers and outcome are kept and
\* get_claude_response is called again with the same query and the same
\* force_tool_use, show_reasoning being the other value
Rerun ==
    /\ cmp_run = 1
    /\ pc = "done"
    /\ cmp_first' = [requests |-> requests, answers |-> answers,
                     result |-> result, raised |-> raised]
    /\ cmp_run' = 2
    /\ show_reasoning' = ~show_reasoning
    /\ pc' = "start"
    /\ response' = None /\ kb_query' = None /\ tool_result' = None /\ followup' = None
    /\ result' = None /\ raised' = FALSE /\ requests' = <<>> /\ gw_outcome' = None
    /\ answers' = <<>>
    /\ UNCHANGED <<query, variant, api_key, force_tool_use>>
    /\ UNCHANGED <<trVars, rpVars, gcVars, concVars, tk>>

\* a step of the second run: the model endpoint and the gateway answer what
\* they answered to the first run, in the same order
Replay ==
    \/ Start
    \/ /\ Len(answers) < Len(cmp_first.answers)
       /\ LET a == cmp_first.answers[Len(answers) + 1] IN
          \/ a.kind = "first_reply" /\ ModelFirstReply(a.response)
          \/ a.kind = "model_error" /\ ModelFirstFail(a.msg)
          \/ a.kind = "exchange" /\ GatewayInitReply(a.exchange)
          \/ a.kind = "exchange" /\ GatewayAskReply(a.exchange)
          \/ a.kind = "follow_reply" /\ ModelFollowReply(a.content)
          \/ a.kind = "model_error" /\ ModelFollowFail(a.msg)

InitCmp == cmp_run = 1 /\ cmp_first = None

\* the first run, with whatever the outside world answers
FirstRun == cmp_run = 1 /\ NextOrch

SecondRun == cmp_run = 2 /\ Replay

NextCmp ==
    \/ FirstRun
    \/ Rerun
    \/ SecondRun

\* ---- several runs as coroutines of one event loop ----

Runs == 1..NumRuns

\* each run is called with a query of its own
RunQueries == <<"hours?", "lunch?", "wifi?">>
RunQuery(r) == RunQueries[((r - 1) % Len(RunQueries)) + 1]

\* the local variables of a run (everything a run works with is a local of
\* ask_claude_with_tools / get_claude_response / slite_ask, the client objects
\* included)
Locals ==
    [pc |-> pc, query |-> query, variant |-> variant, api_key |-> api_key,
     force_tool_use |-> force_tool_use, show_reasoning |-> show_reasoning,
     response |-> response, kb_query |-> kb_query, tool_result |-> tool_result,
     followup |-> followup, result |-> result, raised |-> raised,
     requests |-> requests, gw_outcome |-> gw_outcome, answers |-> answers]

\* a run that was called and has not executed yet
NewRun(r, v) ==
    [pc |-> "start", query |-> RunQuery(r), variant |-> v, api_key |-> TRUE,
     force_tool_use |-> FALSE, show_reasoning |-> (v = "direct"),
     response |-> None, kb_query |-> None, tool_result |-> None,
     followup |-> None, result |-> None, raised |-> FALSE,
     requests |-> <<>>, gw_outcome |-> None, answers |-> <<>>]

\* the running coroutine is at an await (the two gateway exchanges of
\* slite_ask), has returned, or has not begun; messages.create is a blocking
\* call in which the event loop runs nothing else
AtAwait == pc \in {"start", "gw_init", "gw_ask", "done"}

\* variant: kb_query is one variable shared by all runs
ResumeSharedQuery(r) ==
    /\ AtAwait
    /\ r # conc_cur
    /\ conc_saved[r].pc # "done"
    /\ conc_saved' = [conc_saved EXCEPT ![conc_cur] = Locals, ![r] = None]
    /\ conc_cur' = r
    /\ LET c == conc_saved[r] IN
       /\ pc' = c.pc /\ query' = c.query /\ variant' = c.variant
       /\ api_key' = c.api_key /\ force_tool_use' = c.force_tool_use
       /\ show_reasoning' = c.show_reasoning /\ response' = c.response
       /\ UNCHANGED kb_query /\ tool_result' = c.tool_result
       /\ followup' = c.followup /\ result' = c.result /\ raised' = c.raised
       /\ requests' = c.requests /\ gw_outcome' = c.gw_outcome
       /\ answers' = c.answers
    /\ UNCHANGED <<trVars, rpVars, gcVars, cmpVars, tk>>

\* the event loop suspends the running coroutine and resumes run r
Resume(r) ==
    /\ AtAwait
    /\ r # conc_cur
    /\ conc_saved[r].pc # "done"
    /\ conc_saved' = [conc_saved EXCEPT ![conc_cur] = Locals, ![r] = None]
    /\ conc_cur' = r
    /\ LET c == conc_saved[r] IN
       /\ pc' = c.pc /\ query' = c.query /\ variant' = c.variant
       /\ api_key' = c.api_key /\ force_tool_use' = c.force_tool_use
       /\ show_reasoning' = c.show_reasoning /\ response' = c.response
       /\ kb_query' = c.kb_query /\ tool_result' = c.tool_result
       /\ followup' = c.followup /\ result' = c.result /\ raised' = c.raised
       /\ requests' = c.requests /\ gw_outcome' = c.gw_outcome
       /\ answers' = c.answers
    /\ UNCHANGED <<trVars, rpVars, gcVars, cmpVars, tk>>

\* what the model endpoint and the gateway answer in the concurrent runs; the
\* gateway's answer is about the question it was asked
ConcResponses ==
    { [stop_reason |-> "end_turn", content |-> <<TextBlock("a")>>],
      [stop_reason |-> "tool_use",
       content |-> <<TextBlock("a"),
                     ToolUseBlock("tu1", KnowledgeToolName,
                                  Dict(<<KV("query", Str("office hours"))>>))>>],
      [stop_reason |-> "tool_use",
       content |-> <<ToolUseBlock("tu2", KnowledgeToolName, Dict(<<>>))>>] }

ConcFollowContents == { <<TextBlock("x")>>, <<TextBlock("x"), TextBlock("y")>> }

AnswerAbout(q) ==
    JsonBody(Dict(<<KV("result",
        Dict(<<KV("content", List(<<TextItem(Str("about " \o q.s))>>))>>))>>))

AnswersTo(q) == IF IsStr(q) THEN { HttpError("timeout"), AnswerAbout(q) } ELSE {}

\* the tools/call exchange of the running coroutine ends
GatewayAnswersQuestion == \E x \in AnswersTo(kb_query) : GatewayAskReply(x)

InitConc ==
    /\ conc_cur = 1
    /\ \E v \in {"claude", "direct"} :
          /\ conc_saved = [r \in Runs |-> IF r = 1 THEN None ELSE NewRun(r, v)]
          /\ pc = "start" /\ query = RunQuery(1) /\ variant = v /\ api_key = TRUE
          /\ force_tool_use = FALSE /\ show_reasoning = (v = "direct")
    /\ response = None /\ kb_query = None /\ tool_result = None /\ followup = None
    /\ result = None /\ raised = FALSE /\ requests = <<>> /\ gw_outcome = None
    /\ answers = <<>>

NextConc ==
    \/ Start
    \/ \E resp \in ConcResponses : ModelFirstReply(resp)
    \/ \E m \in ModelErrors : ModelFirstFail(m)
    \/ \E x \in InitExchanges : GatewayInitReply(x)
    \/ GatewayAnswersQuestion
    \/ \E c \in ConcFollowContents : ModelFollowReply(c)
    \/ \E m \in ModelErrors : ModelFollowFail(m)
    \/ \E r \in Runs : Resume(r)

-----------------------------------------------------------------------------
(* tools/slite.py: SliteMethodTranslator *)

\* a JsonRPCRequest object (it has the attributes method, id, params)
RequestObject(method, id, params) ==
    [k |-> "obj", method |-> method, id |-> id, params |-> params]

Stats(tc, ec, le) ==
    [translations_count |-> tc, errors_count |-> ec, last_error |-> le]

\* variant: the error is counted but last_error is not recorded
CountErrorWithoutMessage(request, st, message) ==
    [returned |-> request,
     stats |-> Stats(st.translations_count, st.errors_count + 1, st.last_error)]

CountError(request, st, message) ==
    [returned |-> request,
     stats |-> Stats(st.translations_count, st.errors_count + 1, Str(message))]

\* variant: a pass-through starts the statistics afresh
PassThroughResetting(request, st) == [returned |-> request, stats |-> Stats(0, 0, Null)]

PassThrough(request, st) == [returned |-> request, stats |-> st]

\* variant: arguments is the input as it came, without the "or {}"
TranslateFieldsRawInput(request, method, request_id, params, st) ==
    IF ~Truthy(method) \/ ~Truthy(params)
    THEN CountError(request, st, "Request missing method or params")
    ELSE IF method = Str("tools/execute")
    THEN IF ~IsDict(params)
         THEN \* params.get raises AttributeError, caught by the handler
              CountError(request, st, "Error translating request: '"
                  \o TypeName(params) \o "' object has no attribute 'get'")
         ELSE LET tool_name == DictGet(params, "name", Null)
                  tool_input == DictGet(params, "input", Null)
              IN IF ~Truthy(tool_name)
                 THEN CountError(request, st,
                                 "tools/execute request missing 'name' in params")
                 ELSE [returned |->
                          Dict(<<KV("jsonrpc", Str("2.0")),
                                 KV("id", request_id),
                                 KV("method", Str("tools/call")),
                                 KV("params",
                                    Dict(<<KV("name", tool_name),
                                           KV("arguments",
                                              tool_input)>>))>>),
                       stats |-> Stats(st.translations_count + 1, st.errors_count,
                                       st.last_error)]
    ELSE PassThrough(request, st)

\* the body of __call__ after method, request_id and params are extracted
TranslateFields(request, method, request_id, params, st) ==
    IF ~Truthy(method) \/ ~Truthy(params)
    THEN CountError(request, st, "Request missing method or params")
    ELSE IF method = Str("tools/execute")
    THEN IF ~IsDict(params)
         THEN \* params.get raises AttributeError, caught by the handler
              CountError(request, st, "Error translating request: '"
                  \o TypeName(params) \o "' object has no attribute 'get'")
         ELSE LET tool_name == DictGet(params, "name", Null)
                  tool_input == DictGet(params, "input", Null)
              IN IF ~Truthy(tool_name)
                 THEN CountError(request, st,
                                 "tools/execute request missing 'name' in params")
                 ELSE [returned |->
                          Dict(<<KV("jsonrpc", Str("2.0")),
                                 KV("id", request_id),
                                 KV("method", Str("tools/call")),
                                 KV("params",
                                    Dict(<<KV("name", tool_name),
                                           KV("arguments",
                                              IF Truthy(tool_input) THEN tool_input
                                              ELSE Dict(<<>>))>>))>>),
                       stats |-> Stats(st.translations_count + 1, st.errors_count,
                                       st.last_error)]
    ELSE PassThrough(request, st)

\* variant: a translation is returned without being counted
TranslateUncounted(request, st) ==
    LET out == IF request.k = "obj"
               THEN TranslateFields(request, request.method, request.id,
                                    request.params, st)
               ELSE IF IsDict(request)
               THEN TranslateFields(request, DictGet(request, "method", Null),
                                    DictGet(request, "id", Null),
                                    DictGet(request, "params", Null), st)
               ELSE CountError(request, st, "Invalid request type")
    IN [returned |-> out.returned,
        stats |-> Stats(st.translations_count, out.stats.errors_count,
                        out.stats.last_error)]

\* SliteMethodTranslator.__call__
Translate(request, st) ==
    IF request.k = "obj"
    THEN TranslateFields(request, request.method, request.id, request.params, st)
    ELSE IF IsDict(request)
    THEN TranslateFields(request, DictGet(request, "method", Null),
                         DictGet(request, "id", Null),
                         DictGet(request, "params", Null), st)
    ELSE CountError(request, st,
                    "Invalid request type: <class '" \o TypeName(request) \o "'>")

\* ---- requests handed to the translator ----

Absent == [k |-> "absent"]

\* a mapping built from optional fields
OptDict(fields) ==
    Dict(SelectSeq(fields, LAMBDA f : f.val # Absent))

ToolNames == {Absent, Str(""), Str("ask-slite")}
ToolInputs == {Absent, Null, Dict(<<>>), List(<<>>),
               Dict(<<KV("question", Str("q"))>>)}
ParamValues ==
    {Absent, Null, List(<<Str("ask-slite")>>)}
    \cup {OptDict(<<KV("name", n), KV("input", i)>>) : n \in ToolNames, i \in ToolInputs}
MethodValues == {Absent, Null, Str(""), Str("tools/execute"), Str("tools/list")}
IdValues == {Absent, Str("x")}

DictRequests ==
    {OptDict(<<KV("jsonrpc", Str("2.0")), KV("id", i), KV("method", m), KV("params", p)>>) :
        i \in IdValues, m \in MethodValues, p \in ParamValues}

ObjectRequests ==
    {RequestObject(m, Str("x"), p) :
        m \in {Str("tools/execute"), Str("tools/list")},
        p \in {Null, Dict(<<>>),
               Dict(<<KV("name", Str("ask-slite")),
                      KV("input", Dict(<<KV("question", Str("q"))>>))>>)}}

TranslatorRequests == DictRequests \cup ObjectRequests \cup {Null, Str("tools/execute")}

CurrentStats == Stats(translations_count, errors_count, last_error)

InitTranslator ==
    /\ translations_count = 0
    /\ errors_count = 0
    /\ last_error = Null
    /\ tr_request = None
    /\ tr_returned = None
    /\ tr_before = Stats(0, 0, Null)
    /\ tr_calls = 0

\* one call of the translator on request
TranslateCall(request) ==
    /\ tr_calls < MaxCalls
    /\ LET out == Translate(request, CurrentStats) IN
        /\ translations_count' = out.stats.translations_count
        /\ errors_count' = out.stats.errors_count
        /\ last_error' = out.stats.last_error
        /\ tr_returned' = out.returned
    /\ tr_request' = request
    /\ tr_before' = CurrentStats
    /\ tr_calls' = tr_calls + 1
    /\ UNCHANGED <<orchVars, rpVars, gcVars, cmpVars, concVars, tk>>

NextTranslator == \E request \in TranslatorRequests : TranslateCall(request)

\* ---- several calls of one translator on one event loop ----

TaskRequests ==
    { Null,
      Dict(<<KV("jsonrpc", Str("2.0")), KV("id", Str("x")),
             KV("method", Str("tools/execute")),
             KV("params", Dict(<<KV("name", Str("ask-slite")),
                                 KV("input", Dict(<<KV("question", Str("q"))>>))>>))>>),
      Dict(<<KV("jsonrpc", Str("2.0")), KV("id", Str("x")),
             KV("method", Str("tools/execute")),
             KV("params", Dict(<<KV("input", Dict(<<KV("question", Str("q"))>>))>>))>>),
      Dict(<<KV("jsonrpc", Str("2.0")), KV("id", Str("x")),
             KV("method", Str("tools/list")),
             KV("params", Dict(<<KV("cursor", Str("c"))>>))>>),
      Dict(<<KV("jsonrpc", Str("2.0")), KV("id", Str("x")),
             KV("method", Str("tools/list")), KV("params", Dict(<<>>))>>) }

\* the interceptor is called: a coroutine of __call__ is created, it has not
\* run yet
Submit(request) ==
    /\ Len(tk) < MaxTasks
    /\ tk' = Append(tk, [request |-> request, state |-> "pending", returned |-> None])
    /\ UNCHANGED <<orchVars, trVars, rpVars, gcVars, cmpVars, concVars>>

\* the event loop runs the coroutine of call i: __call__ has no await, its
\* body runs from the first line to the return without another coroutine
\* in between
RunTask(i) ==
    /\ i \in 1..Len(tk)
    /\ tk[i].state = "pending"
    /\ LET out == Translate(tk[i].request, CurrentStats) IN
        /\ translations_count' = out.stats.translations_count
        /\ errors_count' = out.stats.errors_count
        /\ last_error' = out.stats.last_error
        /\ tr_returned' = out.returned
        /\ tk' = [tk EXCEPT ![i].state = "done", ![i].returned = out.returned]
    /\ tr_request' = tk[i].request
    /\ tr_before' = CurrentStats
    /\ tr_calls' = tr_calls + 1
    /\ UNCHANGED <<orchVars, rpVars, gcVars, cmpVars, concVars>>

NextTasks ==
    \/ \E request \in TaskRequests : Submit(request)
    \/ \E i \in 1..MaxTasks : RunTask(i)

-----------------------------------------------------------------------------
(* result_processor.py: ResultProcessor, and tools/utils.py to_dict *)

\* the JSON documents that occur in text payloads
JsonDocuments ==
    { Null, Num(5), Bool(TRUE), Str("hi"), List(<<Num(1)>>),
      Dict(<<KV("a", Num(1))>>), Dict(<<KV("error", Str("bad"))>>) }

\* json.loads(s): the document whose encoding is s, or JSONDecodeError
json_loads(s) ==
    IF \E v \in JsonDocuments : json_dumps(v) = s
    THEN Return(CHOOSE v \in JsonDocuments : json_dumps(v) = s)
    ELSE Raise("Expecting value: line 1 column 1 (char 0)")

\* all(isinstance(item, dict) and "type" in item for item in result)
AllTyped(xs) == \A i \in 1..Len(xs) : IsDict(xs[i]) /\ HasKey(xs[i], "type")

\* [item["text"] for item in result if item.get("type") == "text" and "text" in item]
TypedTextParts(xs) ==
    LET keep(item) == DictGet(item, "type", Null) = Str("text") /\ HasKey(item, "text")
        kept == SelectSeq(xs, keep)
    IN [i \in 1..Len(kept) |-> DictAt(kept[i], "text")]

RECURSIVE JoinFrom(_, _)
JoinFrom(parts, i) ==
    IF i > Len(parts) THEN "" ELSE parts[i].s \o JoinFrom(parts, i + 1)

\* "".join(parts): TypeError on the first part that is not text
Join(parts) ==
    LET bad == {i \in 1..Len(parts) : ~IsStr(parts[i])} IN
    IF bad = {} THEN Return(Str(JoinFrom(parts, 1)))
    ELSE LET i == CHOOSE i \in bad : \A j \in bad : i <= j IN
         Raise("sequence item " \o NumStr(i - 1) \o ": expected str instance, "
               \o TypeName(parts[i]) \o " found")

\* What an operation hands back: the argument object itself, or a new object
Same == [ok |-> TRUE, alias |-> TRUE]
Fresh(v) == [ok |-> TRUE, alias |-> FALSE, val |-> v]

\* the str and list branches shared by to_dict and process
ConvertText(v) ==
    LET parsed == json_loads(v.s) IN
    IF parsed.ok THEN Fresh(parsed.val) ELSE Fresh(Dict(<<KV("result", v)>>))

ConvertList(v) ==
    IF AllTyped(v.items) /\ TypedTextParts(v.items) # <<>>
    THEN LET joined == Join(TypedTextParts(v.items)) IN
         IF joined.ok THEN Fresh(Dict(<<KV("result", joined.val)>>)) ELSE joined
    ELSE Fresh(Dict(<<KV("result", v)>>))

NoResult == Dict(<<KV("error", Str("No result returned"))>>)

\* ResultProcessor.to_dict
to_dict(v) ==
    CASE v.k = "null" -> Fresh(NoResult)
      [] v.k = "dict" -> Same
      [] v.k = "str"  -> ConvertText(v)
      [] v.k = "list" -> ConvertList(v)
      [] OTHER        -> Fresh(Dict(<<KV("result", Str(py_str(v)))>>))

\* variant: process without its exception handler
process_unhandled(v) ==
    CASE v.k = "null" -> Fresh(NoResult)
      [] v.k = "str" -> ConvertText(v)
      [] v.k = "dict" -> Fresh(v)
      [] v.k = "list" -> ConvertList(v)
      [] OTHER -> Fresh(Dict(<<KV("result", Str(py_str(v)))>>))

\* ResultProcessor.process
process(v) ==
    LET out == CASE v.k = "null" -> Fresh(NoResult)
                 [] v.k = "str"  -> ConvertText(v)
                 [] v.k = "dict" -> Fresh(v)
                 [] v.k = "list" -> ConvertList(v)
                 [] OTHER        -> Fresh(Dict(<<KV("result", Str(py_str(v)))>>))
    IN IF out.ok THEN out
       ELSE Fresh(Dict(<<KV("error", Str("Error processing result: " \o out.msg))>>))

\* tools/utils.py: to_dict
utils_to_dict(v) ==
    CASE v.k = "null" -> Fresh(NoResult)
      [] v.k = "dict" -> Same
      [] v.k = "str"  -> ConvertText(v)
      [] v.k = "list" -> Fresh(Dict(<<KV("result", v)>>))
      [] OTHER        -> Fresh(Dict(<<KV("result", Str(py_str(v)))>>))

\* variant: the error value is tested for truth instead of the key for presence
is_error_truthy(v) == IsDict(v) /\ Truthy(DictGet(v, "error", Null))

\* ResultProcessor.is_error
is_error(v) == IsDict(v) /\ HasKey(v, "error")

\* [item["text"] for item in content if isinstance(item, dict) and "text" in item]
ContentTextParts(xs) ==
    LET keep(item) == IsDict(item) /\ HasKey(item, "text")
        kept == SelectSeq(xs, keep)
    IN [i \in 1..Len(kept) |-> DictAt(kept[i], "text")]

RECURSIVE extract_text(_)
RECURSIVE extract_text_falsy(_)
\* variant: an empty text is treated like an absent payload
extract_text_falsy(v) ==
    CASE v.k = "null" -> Return(Null)
      [] v.k = "str"  -> IF v.s = "" THEN Return(Null) ELSE Return(v)
      [] v.k = "dict" ->
            IF /\ HasKey(v, "content") /\ IsList(DictAt(v, "content"))
               /\ ContentTextParts(DictAt(v, "content").items) # <<>>
            THEN Join(ContentTextParts(DictAt(v, "content").items))
            ELSE IF HasKey(v, "content") /\ IsStr(DictAt(v, "content"))
            THEN Return(DictAt(v, "content"))
            ELSE IF HasKey(v, "result") THEN extract_text_falsy(DictAt(v, "result"))
            ELSE IF HasKey(v, "text") THEN Return(DictAt(v, "text"))
            ELSE Return(Str(json_dumps(v)))
      [] v.k = "list" ->
            IF AllTyped(v.items) /\ TypedTextParts(v.items) # <<>>
            THEN Join(TypedTextParts(v.items))
            ELSE Return(Str(json_dumps(v)))
      [] OTHER -> Return(Str(py_str(v)))


\* ResultProcessor.extract_text
extract_text(v) ==
    CASE v.k = "null" -> Return(Null)
      [] v.k = "str"  -> Return(v)
      [] v.k = "dict" ->
            IF /\ HasKey(v, "content") /\ IsList(DictAt(v, "content"))
               /\ ContentTextParts(DictAt(v, "content").items) # <<>>
            THEN Join(ContentTextParts(DictAt(v, "content").items))
            ELSE IF HasKey(v, "content") /\ IsStr(DictAt(v, "content"))
            THEN Return(DictAt(v, "content"))
            ELSE IF HasKey(v, "result") THEN extract_text(DictAt(v, "result"))
            ELSE IF HasKey(v, "text") THEN Return(DictAt(v, "text"))
            ELSE Return(Str(json_dumps(v)))
      [] v.k = "list" ->
            IF AllTyped(v.items) /\ TypedTextParts(v.items) # <<>>
            THEN Join(TypedTextParts(v.items))
            ELSE Return(Str(json_dumps(v)))
      [] OTHER -> Return(Str(py_str(v)))

\* all(isinstance(item, dict) and "type" in item and item.get("type") == "text" ...)
AllTextTyped(xs) ==
    \A i \in 1..Len(xs) :
        IsDict(xs[i]) /\ HasKey(xs[i], "type") /\ DictAt(xs[i], "type") = Str("text")

RECURSIVE utils_extract_text(_)
\* tools/utils.py: extract_text, the manual extraction (fastmcp exports no
\* content_to_text, the import fails)
utils_extract_text(v) ==
    CASE v.k = "null" -> Return(Null)
      [] v.k = "str"  -> Return(v)
      [] v.k = "dict" ->
            IF HasKey(v, "content") THEN utils_extract_text(DictAt(v, "content"))
            ELSE IF HasKey(v, "text") THEN Return(DictAt(v, "text"))
            ELSE IF HasKey(v, "result") THEN utils_extract_text(DictAt(v, "result"))
            ELSE Return(Str(json_dumps(v)))
      [] v.k = "list" ->
            IF AllTextTyped(v.items)
            THEN Join([i \in 1..Len(v.items) |-> DictGet(v.items[i], "text", Str(""))])
            ELSE Return(Str(json_dumps(v)))
      [] OTHER -> Return(Str(py_str(v)))

\* a returned value that is not the argument object
AsFresh(out) == IF out.ok THEN Fresh(out.val) ELSE out

\* ---- payloads and the object heap ----

SrcRef == 1   \* the caller's payload object
NewRef == 2   \* the object an operation creates

RpPayloads ==
    { Null, Num(7), Str("hello"), Str("") }
    \cup { Str(json_dumps(v)) : v \in JsonDocuments }
    \cup { Dict(<<>>),
           Dict(<<KV("result", Str("r"))>>),
           Dict(<<KV("content", List(<<TextItem(Str("a")), TextItem(Str("b"))>>))>>),
           Dict(<<KV("error", Str("bad"))>>),
           Dict(<<KV("metadata", Dict(<<KV("source", Str("old"))>>)), KV("text", Str("t"))>>),
           List(<<>>),
           List(<<Str("x")>>),
           List(<<TextItem(Str("a")),
                  Dict(<<KV("type", Str("image")), KV("url", Str("u"))>>),
                  TextItem(Str("b"))>>),
           List(<<TextItem(Num(5))>>),
           List(<<Dict(<<KV("type", Str("image")), KV("text", Str("alt"))>>),
                  TextItem(Str("a")),
                  Dict(<<KV("type", Str("text"))>>)>>),
           List(<<Dict(<<KV("type", Str("image")), KV("url", Str("u"))>>)>>),
           Dict(<<KV("content", List(<<TextItem(Str("a")), TextItem(Str("b"))>>)),
                  KV("result", Str("r")), KV("text", Str("t"))>>),
           Dict(<<KV("content", List(<<>>)), KV("text", Str("t"))>>),
           Dict(<<KV("content", List(<<TextItem(Num(5))>>))>>),
           Dict(<<KV("content", Str("c")), KV("result", Str("r"))>>),
           Dict(<<KV("result", Dict(<<KV("text", Str("t"))>>)), KV("text", Str("outer"))>>),
           Dict(<<KV("text", Num(5))>>),
           Dict(<<KV("error", Null)>>),
           Dict(<<KV("answer", Str("x"))>>) }

Metadatas == { Dict(<<>>), Dict(<<KV("source", Str("slite"))>>) }
MutationKeys == {"result", "seen"}
MutationValues == {Str("changed")}

InitRp ==
    /\ heap \in {[r \in {SrcRef, NewRef} |-> IF r = SrcRef THEN p ELSE None] :
                    p \in RpPayloads}
    /\ rp_op = "none"
    /\ rp_src = None
    /\ rp_ret = 0
    /\ rp_steps = 0

\* the operation hands its result to the caller
Deliver(op, out) ==
    /\ rp_op' = op
    /\ rp_src' = heap[SrcRef]
    /\ rp_steps' = 0
    /\ IF ~out.ok THEN rp_ret' = 0 /\ UNCHANGED heap
       ELSE IF out.alias THEN rp_ret' = SrcRef /\ UNCHANGED heap
       ELSE rp_ret' = NewRef /\ heap' = [heap EXCEPT ![NewRef] = out.val]

CallToDict ==
    /\ rp_op = "none"
    /\ Deliver("to_dict", to_dict(heap[SrcRef]))
    /\ UNCHANGED <<orchVars, trVars, gcVars, cmpVars, concVars, tk>>

CallUtilsToDict ==
    /\ rp_op = "none"
    /\ Deliver("utils_to_dict", utils_to_dict(heap[SrcRef]))
    /\ UNCHANGED <<orchVars, trVars, gcVars, cmpVars, concVars, tk>>

CallProcess ==
    /\ rp_op = "none"
    /\ Deliver("process", process(heap[SrcRef]))
    /\ UNCHANGED <<orchVars, trVars, gcVars, cmpVars, concVars, tk>>

CallExtractText ==
    /\ rp_op = "none"
    /\ Deliver("extract_text", AsFresh(extract_text(heap[SrcRef])))
    /\ UNCHANGED <<orchVars, trVars, gcVars, cmpVars, concVars, tk>>

CallUtilsExtractText ==
    /\ rp_op = "none"
    /\ Deliver("utils_extract_text", AsFresh(utils_extract_text(heap[SrcRef])))
    /\ UNCHANGED <<orchVars, trVars, gcVars, cmpVars, concVars, tk>>

CallIsError ==
    /\ rp_op = "none"
    /\ Deliver("is_error", Fresh(Bool(is_error(heap[SrcRef]))))
    /\ UNCHANGED <<orchVars, trVars, gcVars, cmpVars, concVars, tk>>

\* ResultProcessor.with_metadata: result_dict = to_dict(result);
\* result_dict["metadata"] = metadata; return result_dict
CallWithMetadata(metadata) ==
    /\ rp_op = "none"
    /\ rp_op' = "with_metadata"
    /\ rp_src' = heap[SrcRef]
    /\ rp_steps' = 0
    /\ LET out == to_dict(heap[SrcRef])
           ref == IF out.alias THEN SrcRef ELSE NewRef
           result_dict == IF out.alias THEN heap[SrcRef] ELSE out.val
       IN IF ~out.ok THEN rp_ret' = 0 /\ UNCHANGED heap
          ELSE IF IsDict(result_dict)
          THEN /\ heap' = [heap EXCEPT ![ref] = DictSet(result_dict, "metadata", metadata)]
               /\ rp_ret' = ref
          ELSE \* item assignment on a value that is not a mapping raises
               /\ heap' = [heap EXCEPT ![NewRef] = out.val]
               /\ rp_ret' = 0
    /\ UNCHANGED <<orchVars, trVars, gcVars, cmpVars, concVars, tk>>

\* the caller changes the mapping it was handed: returned[key] = val
CallerSet(key, val) ==
    /\ rp_ret # 0
    /\ rp_steps < MaxMutations
    /\ IsDict(heap[rp_ret])
    /\ heap' = [heap EXCEPT ![rp_ret] = DictSet(@, key, val)]
    /\ rp_steps' = rp_steps + 1
    /\ UNCHANGED <<rp_op, rp_src, rp_ret>>
    /\ UNCHANGED <<orchVars, trVars, gcVars, cmpVars, concVars, tk>>

NextRp ==
    \/ CallToDict
    \/ CallUtilsToDict
    \/ CallProcess
    \/ CallExtractText
    \/ CallUtilsExtractText
    \/ CallIsError
    \/ \E metadata \in Metadatas : CallWithMetadata(metadata)
    \/ \E key \in MutationKeys, val \in MutationValues : CallerSet(key, val)

-----------------------------------------------------------------------------
(* Specifications *)

IdleRp ==
    /\ heap = [r \in {SrcRef, NewRef} |-> None]
    /\ rp_op = "idle" /\ rp_src = None /\ rp_ret = 0 /\ rp_steps = 0

\* ---- calls on a SliteMCPClient ----

ToolsListing ==
    Dict(<<KV("tools", List(<<Dict(<<KV("name", Str("ask-slite"))>>)>>))>>)

ClientExchanges == GatewayExchanges \cup { JsonBody(Dict(<<KV("result", ToolsListing)>>)) }

MethodCalls ==
    { <<"tools/list", Dict(<<>>)>>,
      <<"tools/call", ToolCallParams("ask-slite", Dict(<<KV("question", Str("hours?"))>>))>> }

NoteIds == { Str("n1") }
Limits == { Num(5), Num(1) }

InitGc ==
    /\ gc_op = "none" /\ gc_exchange = None /\ gc_sent = <<>>
    /\ gc_out = None /\ gc_prev = None

\* one operation of the client, from its call to its return or its exception
GcDeliver(op, sent, exchange, out) ==
    /\ gc_op' = op
    /\ gc_sent' = sent
    /\ gc_exchange' = exchange
    /\ gc_out' = out
    /\ gc_prev' = IF gc_op = "none" THEN None
                  ELSE [op |-> gc_op, exchange |-> gc_exchange, out |-> gc_out]
    /\ UNCHANGED <<orchVars, trVars, rpVars, cmpVars, concVars, tk>>

CallMethod(method, params, exchange) ==
    GcDeliver("call_method", <<RpcRequest(method, params)>>, exchange,
              call_method(exchange))

CallTool(tool_name, tool_args, exchange) ==
    GcDeliver("call_tool", <<RpcRequest("tools/call", ToolCallParams(tool_name, tool_args))>>,
              exchange, Return(call_tool(exchange)))

CallSearchNotes(q, limit, exchange) ==
    GcDeliver("search_notes",
              <<RpcRequest("tools/call", ToolCallParams("search-notes", SearchArgs(q, limit)))>>,
              exchange, Return(search_notes(exchange)))

CallAskSlite(question, exchange) ==
    GcDeliver("ask_slite", <<RpcRequest("tools/call", AskParams(question))>>,
              exchange, Return(ask_slite(exchange)))

CallGetNote(note_id, exchange) ==
    GcDeliver("get_note",
              <<RpcRequest("tools/call", ToolCallParams("get-note", GetNoteArgs(note_id)))>>,
              exchange, Return(get_note(exchange)))

CallInitialize(exchange) ==
    GcDeliver("initialize", <<RpcRequest("initialize", InitializeParams)>>,
              exchange, Return(initialize(exchange)))

CallListTools(exchange) ==
    GcDeliver("list_tools", <<RpcRequest("tools/list", Dict(<<>>))>>,
              exchange, Return(list_tools(exchange)))

NextGc ==
    \/ \E mc \in MethodCalls, x \in ClientExchanges : CallMethod(mc[1], mc[2], x)
    \/ \E x \in ClientExchanges :
          CallTool("ask-slite", Dict(<<KV("question", Str("hours?"))>>), x)
    \/ \E q \in Queries, limit \in Limits, x \in ClientExchanges :
          CallSearchNotes(Str(q), limit, x)
    \/ \E q \in Queries, x \in ClientExchanges : CallAskSlite(Str(q), x)
    \/ \E n \in NoteIds, x \in ClientExchanges : CallGetNote(n, x)
    \/ \E x \in ClientExchanges : CallInitialize(x)
    \/ \E x \in ClientExchanges : CallListTools(x)

IdleGc ==
    /\ gc_op = "idle" /\ gc_exchange = None /\ gc_sent = <<>>
    /\ gc_out = None /\ gc_prev = None

IdleCmp == cmp_run = 0 /\ cmp_first = None

IdleConc == conc_cur = 0 /\ conc_saved = <<>>

IdleTasks == tk = <<>>

\* one orchestration run
Init == InitOrch /\ InitTranslator /\ IdleRp /\ IdleGc /\ IdleCmp /\ IdleConc /\ IdleTasks
Next == NextOrch
Spec == Init /\ [][Next]_vars

\* a sequence of calls on one SliteMethodTranslator
TranslatorInit == IdleOrch /\ InitTranslator /\ IdleRp /\ IdleGc /\ IdleCmp /\ IdleConc /\ IdleTasks
TranslatorNext == NextTranslator
TranslatorSpec == TranslatorInit /\ [][TranslatorNext]_vars

\* one ResultProcessor operation on a payload, then the caller's mutations
RpInit == IdleOrch /\ InitTranslator /\ InitRp /\ IdleGc /\ IdleCmp /\ IdleConc /\ IdleTasks
RpNext == NextRp
RpSpec == RpInit /\ [][RpNext]_vars

\* get_claude_response called twice on the same inputs and the same external
\* answers, with show_reasoning off in one call and on in the other
CmpInit ==
    /\ InitOrch /\ variant = "direct"
    /\ InitTranslator /\ IdleRp /\ IdleGc /\ InitCmp /\ IdleConc /\ IdleTasks
CmpNext == NextCmp
CmpSpec == CmpInit /\ [][CmpNext]_vars

\* several orchestration runs interleaved at their awaits
ConcInit == InitConc /\ InitTranslator /\ IdleRp /\ IdleGc /\ IdleCmp /\ IdleTasks
ConcNext == NextConc
ConcSpec == ConcInit /\ [][ConcNext]_vars

\* several calls of one SliteMethodTranslator, run in any order
TaskInit == IdleOrch /\ InitTranslator /\ IdleRp /\ IdleGc /\ IdleCmp /\ IdleConc /\ IdleTasks
TaskNext == NextTasks
TaskSpec == TaskInit /\ [][TaskNext]_vars

\* a sequence of calls on one SliteMCPClient
GcInit == IdleOrch /\ InitTranslator /\ IdleRp /\ InitGc /\ IdleCmp /\ IdleConc /\ IdleTasks
GcNext == NextGc
GcSpec == GcInit /\ [][GcNext]_vars

-----------------------------------------------------------------------------
(* Properties of an orchestration run (Spec) *)

Done == pc = "done"
HasResponse == response # None

ModelRequests == SelectSeq(requests, LAMBDA r : r.to = "model")
GatewayRequests == SelectSeq(requests, LAMBDA r : r.to = "gateway")

\* the text blocks of a content, in block order
TextBlocksOf(content) == SelectSeq(content, LAMBDA b : b.type = "text")

RECURSIVE TextOf(_)
\* concatenation, in block order, of the text of every block of type text
TextOf(content) ==
    LET texts == TextBlocksOf(content) IN
    IF texts = <<>> THEN ""
    ELSE texts[1].text
         \o TextOf(SubSeq(content,
                          1 + (CHOOSE i \in 1..Len(content) :
                                  /\ content[i].type = "text"
                                  /\ \A j \in 1..(i - 1) : content[j].type # "text"),
                          Len(content)))

\* the tool_use blocks of the first response, in order
ToolUses == SelectSeq(response.content, LAMBDA b : b.type = "tool_use")

\* the first response asks for the knowledge tool
AsksKnowledge ==
    /\ HasResponse
    /\ response.stop_reason = "tool_use"
    /\ ToolUses # <<>>
    /\ ToolUses[1].name = KnowledgeToolName

\* the tools/call exchange with the gateway failed, with message m
GatewayFailedWith(m) ==
    /\ gw_outcome # None
    /\ \/ gw_outcome.kind \in {"http_error", "bad_json"} /\ gw_outcome.msg = m
       \/ /\ gw_outcome.kind = "json"
          /\ HasKey(gw_outcome.body, "error")
          /\ IsDict(DictAt(gw_outcome.body, "error"))
          /\ DictGet(DictAt(gw_outcome.body, "error"), "message", Str("Unknown error")) = Str(m)

GatewayMessages == {"timeout", "Expecting value", "not found", "Unknown error"}

GatewaySucceeded ==
    /\ gw_outcome # None
    /\ gw_outcome.kind = "json"
    /\ ~HasKey(gw_outcome.body, "error")

\* C1: when the first model response has a stop_reason other than tool_use, the
\* run ends with response = the concatenation in block order of its text
\* blocks and tool_used = false, and the only request the run ever issues is
\* the first model request (no gateway call, no second model request).
C1_NoToolRun ==
    (HasResponse /\ response.stop_reason # "tool_use") =>
        /\ Done /\ ~raised
        /\ IsDict(result)
        /\ DictGet(result, "response", Null) = Str(TextOf(response.content))
        /\ DictGet(result, "tool_used", Null) = Bool(FALSE)
        /\ ~HasKey(result, "error")
        /\ Len(requests) = 1 /\ requests[1].to = "model"

C1_Witness ==
    /\ Done /\ HasResponse /\ response.stop_reason = "end_turn"
    /\ response.content = <<TextBlock("a"), TextBlock("b")>>
    /\ DictGet(result, "response", Null) = Str("ab")
    /\ Len(requests) = 1

\* the tool_result blocks carried by the model requests of the run
SentToolResults ==
    {requests[i].messages[3].content.blocks[1] :
        i \in {j \in 1..Len(requests) :
                  requests[j].to = "model" /\ Len(requests[j].messages) = 3}}

\* C2: in every run that reaches the follow-up model request, the content of
\* the tool_result block is a plain string whatever the gateway payload was,
\* and it is never the structured payload itself.
C2_ToolResultIsText ==
    \A tr \in SentToolResults :
        /\ IsStr(tr.content)
        /\ (~IsStr(slite_ask(gw_outcome)) => tr.content # slite_ask(gw_outcome))

C2_Witness ==
    /\ pc = "model2"
    /\ slite_ask(gw_outcome) =
          Dict(<<KV("content", List(<<TextItem(List(<<Str("9-5")>>))>>))>>)
    /\ \E tr \in SentToolResults : tr.content = Str("['9-5']")

\* C3: when the first response has stop_reason tool_use and has no tool_use
\* block, or its first tool_use block names another tool than
\* company_knowledge, the run ends with error "Unsupported tool requested:
\* <name>" ("None" without a tool_use block) and issues neither a gateway call
\* nor a follow-up model request.
C3_UnsupportedTool ==
    (/\ HasResponse
     /\ response.stop_reason = "tool_use"
     /\ (ToolUses = <<>> \/ ToolUses[1].name # KnowledgeToolName)) =>
        /\ Done /\ ~raised
        /\ result = Dict(<<KV("error",
              Str("Unsupported tool requested: "
                  \o (IF ToolUses = <<>> THEN "None" ELSE ToolUses[1].name)))>>)
        /\ Len(requests) = 1 /\ requests[1].to = "model"

C3_Witness ==
    /\ Done /\ HasResponse /\ Len(response.content) = 2
    /\ response.content[1].type = "tool_use" /\ response.content[1].name = "weather"
    /\ response.content[2].type = "tool_use"
    /\ response.content[2].name = KnowledgeToolName
    /\ result = Dict(<<KV("error", Str("Unsupported tool requested: weather"))>>)

\* C4: when the model requests company_knowledge and the gateway exchange
\* fails (transport failure or error envelope) with message m, the run ends
\* with {error: "Error querying knowledge base: m"} and sends no follow-up
\* model request.
C4_GatewayFailureEndsRun ==
    \A m \in GatewayMessages :
        (AsksKnowledge /\ GatewayFailedWith(m)) =>
            /\ Done
            /\ result = Dict(<<KV("error", Str("Error querying knowledge base: " \o m))>>)
            /\ Len(ModelRequests) = 1

\* C7: every run ends by returning, never by raising, a mapping that is
\* either an error result (key error, no response) or a success result (keys
\* response and tool_used, no error).
C7_ResultShape ==
    Done =>
        /\ ~raised
        /\ IsDict(result)
        /\ \/ HasKey(result, "error") /\ ~HasKey(result, "response")
           \/ /\ HasKey(result, "response") /\ HasKey(result, "tool_used")
              /\ ~HasKey(result, "error")

C7_Witness ==
    /\ Done /\ ~raised /\ Len(requests) = 4 /\ followup = None
    /\ HasKey(result, "error")

\* the query of the first tool_use block when the model supplied one,
\* otherwise the user's query
ExpectedKnowledgeQuery ==
    IF HasKey(ToolUses[1].input, "query") THEN DictAt(ToolUses[1].input, "query")
    ELSE Str(query)

\* the question that was sent to the gateway
SentQuestion == DictAt(DictAt(GatewayRequests[2].params, "arguments"), "question")

ToolRunSucceeded == Done /\ AsksKnowledge /\ GatewaySucceeded /\ followup # None

\* C8 as stated: a run whose gateway call and follow-up both succeed returns
\* response = the text of the follow-up reply, tool_used = true and
\* knowledge_query = the query sent to the gateway, in both orchestrators.
C8_Original ==
    ToolRunSucceeded =>
        /\ DictGet(result, "response", Null) = Str(TextOf(followup.blocks))
        /\ DictGet(result, "tool_used", Null) = Bool(TRUE)
        /\ DictGet(result, "knowledge_query", Null) = SentQuestion
        /\ SentQuestion = ExpectedKnowledgeQuery

\* C8 amended: such a run returns response = the text of the follow-up reply
\* and tool_used = true; the query sent to the gateway is the model's
\* input.query when supplied, otherwise the user's query; get_claude_response
\* returns it as knowledge_query, ask_claude_with_tools returns no
\* knowledge_query key.
C8_ToolRunResult ==
    ToolRunSucceeded =>
        /\ ~raised
        /\ DictGet(result, "response", Null) = Str(TextOf(followup.blocks))
        /\ DictGet(result, "tool_used", Null) = Bool(TRUE)
        /\ ~HasKey(result, "error")
        /\ SentQuestion = ExpectedKnowledgeQuery
        /\ (variant = "direct" => DictGet(result, "knowledge_query", Null) = SentQuestion)
        /\ (variant = "claude" => ~HasKey(result, "knowledge_query"))

C8_Witness ==
    /\ ToolRunSucceeded /\ variant = "direct"
    /\ response.content = <<TextBlock("a"), ToolUseBlock("tu2", KnowledgeToolName, Dict(<<>>))>>
    /\ followup = Blocks(<<TextBlock("x"), TextBlock("y")>>)
    /\ DictGet(result, "response", Null) = Str("xy")
    /\ DictGet(result, "knowledge_query", Null) = Str(query)

-----------------------------------------------------------------------------
(* Properties of the translator (TranslatorSpec) *)

Called == tr_calls > 0

\* the fields of the last request, Absent when the request does not carry them
FieldOf(request, name) ==
    IF request.k = "obj"
    THEN (CASE name = "method" -> request.method
            [] name = "id"     -> request.id
            [] name = "params" -> request.params)
    ELSE IF IsDict(request) THEN DictGet(request, name, Absent)
    ELSE Absent

ReqMethod == FieldOf(tr_request, "method")
ReqId == FieldOf(tr_request, "id")
ReqParams == FieldOf(tr_request, "params")

Missing(v) == v = Absent \/ v = Null

\* a tools/execute request whose params carry a non-empty name
ExecuteWithName ==
    /\ Called
    /\ ReqMethod = Str("tools/execute")
    /\ IsDict(ReqParams)
    /\ HasKey(ReqParams, "name")
    /\ IsStr(DictAt(ReqParams, "name")) /\ DictAt(ReqParams, "name").s # ""

StatsUnchanged == CurrentStats = tr_before

TranslatedTo(arguments) ==
    /\ IsDict(tr_returned)
    /\ tr_returned # tr_request
    /\ DictGet(tr_returned, "method", Absent) = Str("tools/call")
    /\ DictGet(tr_returned, "id", Absent) = (IF ReqId = Absent THEN Null ELSE ReqId)
    /\ DictGet(tr_returned, "params", Absent) =
          Dict(<<KV("name", DictAt(ReqParams, "name")), KV("arguments", arguments)>>)
    /\ translations_count = tr_before.translations_count + 1
    /\ errors_count = tr_before.errors_count
    /\ last_error = tr_before.last_error

\* C5 as stated: every tools/execute request with a non-empty name is
\* translated to tools/call with the same id and params exactly {name,
\* arguments: the input value}, translations_count grows by 1 and errors_count
\* and last_error are unchanged.  (A request without an input key has no input
\* value; the empty mapping is accepted for it.)
C5_Original ==
    ExecuteWithName =>
        TranslatedTo(IF HasKey(ReqParams, "input") THEN DictAt(ReqParams, "input")
                     ELSE Dict(<<>>))

\* C5 amended: as stated, except that arguments is the input value only when
\* that value is present and truthy; an absent, null or otherwise falsy input
\* (an empty sequence, an empty mapping) gives arguments = the empty mapping.
C5_ExecuteTranslated ==
    ExecuteWithName =>
        TranslatedTo(IF /\ HasKey(ReqParams, "input")
                        /\ DictAt(ReqParams, "input") \notin
                              {Null, Dict(<<>>), List(<<>>), Str(""), Num(0), Bool(FALSE)}
                     THEN DictAt(ReqParams, "input")
                     ELSE Dict(<<>>))

C5_Witness ==
    /\ tr_calls = 2
    /\ tr_request = Dict(<<KV("jsonrpc", Str("2.0")), KV("id", Str("x")),
                           KV("method", Str("tools/execute")),
                           KV("params", Dict(<<KV("name", Str("ask-slite")),
                                KV("input", Dict(<<KV("question", Str("q"))>>))>>))>>)
    /\ tr_returned = Dict(<<KV("jsonrpc", Str("2.0")), KV("id", Str("x")),
                            KV("method", Str("tools/call")),
                            KV("params", Dict(<<KV("name", Str("ask-slite")),
                                 KV("arguments", Dict(<<KV("question", Str("q"))>>))>>))>>)
    /\ translations_count = 1 /\ errors_count = 1

\* a request missing method or params, or a tools/execute request whose
\* params lack name
Malformed ==
    /\ Called
    /\ tr_request.k \in {"obj", "dict"}
    /\ \/ Missing(ReqMethod)
       \/ Missing(ReqParams)
       \/ /\ ReqMethod = Str("tools/execute")
          /\ IsDict(ReqParams)
          /\ ~HasKey(ReqParams, "name")

\* C6: for a request missing method or params, and for a tools/execute
\* request whose params lack name, the translator returns the request
\* unchanged, errors_count grows by exactly 1, last_error is set and
\* translations_count is unchanged.
C6_MalformedCounted ==
    Malformed =>
        /\ tr_returned = tr_request
        /\ errors_count = tr_before.errors_count + 1
        /\ IsStr(last_error) /\ last_error.s # ""
        /\ translations_count = tr_before.translations_count

C6_Witness ==
    /\ tr_calls = 1
    /\ tr_request = Dict(<<KV("jsonrpc", Str("2.0")), KV("id", Str("x")),
                           KV("method", Str("tools/execute")),
                           KV("params", Dict(<<KV("input", Dict(<<KV("question", Str("q"))>>))>>))>>)
    /\ tr_returned = tr_request
    /\ errors_count = 1 /\ translations_count = 0
    /\ last_error = Str("tools/execute request missing 'name' in params")

\* C9: a request whose method is present and is not tools/execute and that
\* carries a params mapping (empty or not) is returned unchanged, and
\* translations_count, errors_count and last_error are all unchanged.
C9_PassThroughUntouched ==
    (/\ Called
     /\ IsStr(ReqMethod) /\ ReqMethod.s # "" /\ ReqMethod # Str("tools/execute")
     /\ IsDict(ReqParams)) =>
        /\ tr_returned = tr_request
        /\ StatsUnchanged

\* C27: each call leaves both counters unchanged or increases exactly one of
\* translations_count and errors_count by exactly 1; no counter decreases or
\* is reset; last_error is non-null exactly when errors_count is above 0.
C27_Counters ==
    /\ Called =>
          \/ /\ translations_count = tr_before.translations_count
             /\ errors_count = tr_before.errors_count
          \/ /\ translations_count = tr_before.translations_count + 1
             /\ errors_count = tr_before.errors_count
          \/ /\ translations_count = tr_before.translations_count
             /\ errors_count = tr_before.errors_count + 1
    /\ translations_count >= 0 /\ errors_count >= 0
    /\ translations_count + errors_count <= tr_calls
    /\ (last_error # Null) <=> (errors_count > 0)

C27_Witness ==
    /\ tr_calls = 3
    /\ translations_count = 1 /\ errors_count = 1 /\ last_error # Null
    /\ tr_before = CurrentStats
    /\ tr_returned = tr_request

\* a tools/execute request with a name whose input is absent or null
ExecuteWithoutInput ==
    /\ ExecuteWithName
    /\ (HasKey(ReqParams, "input") => DictAt(ReqParams, "input") = Null)

\* the call returned a new request, not the one it was given
ReturnedTranslation ==
    /\ Called
    /\ tr_returned # tr_request
    /\ IsDict(tr_returned)
    /\ DictGet(tr_returned, "method", Absent) = Str("tools/call")

\* C28: a tools/execute request that has a name and whose input is absent or
\* null is translated with arguments = the empty mapping; the arguments
\* field of a translated request is never absent and never null.
C28_ArgumentsNeverAbsent ==
    /\ ExecuteWithoutInput =>
          /\ ReturnedTranslation
          /\ DictGet(DictAt(tr_returned, "params"), "arguments", Absent) = Dict(<<>>)
    /\ ReturnedTranslation =>
          /\ HasKey(DictAt(tr_returned, "params"), "arguments")
          /\ DictAt(DictAt(tr_returned, "params"), "arguments") # Null

C28_Witness ==
    /\ ExecuteWithoutInput /\ ~HasKey(ReqParams, "input")
    /\ ReturnedTranslation
    /\ DictAt(tr_returned, "params") =
          Dict(<<KV("name", Str("ask-slite")), KV("arguments", Dict(<<>>))>>)

\* a request that is not well formed: not a request at all, method or
\* params missing, params not a mapping, tools/execute without a name
MalformedRequest(request) ==
    LET method == FieldOf(request, "method")
        params == FieldOf(request, "params") IN
    \/ request.k \notin {"obj", "dict"}
    \/ Missing(method) \/ method = Str("")
    \/ Missing(params) \/ ~IsDict(params)
    \/ /\ method = Str("tools/execute")
       /\ (~HasKey(params, "name") \/ DictAt(params, "name") \in {Null, Str("")})

AllTasksDone == tk # <<>> /\ \A i \in 1..Len(tk) : tk[i].state = "done"

\* C26: when one translator serves several calls concurrently no counter
\* update is lost: once all calls have completed, translations_count is the
\* number of calls that returned a tools/call request and errors_count is the
\* number of calls made on malformed requests.
C26_NoLostUpdate ==
    AllTasksDone =>
        /\ translations_count =
              Cardinality({i \in 1..Len(tk) :
                  /\ IsDict(tk[i].returned)
                  /\ DictGet(tk[i].returned, "method", Absent) = Str("tools/call")})
        /\ errors_count =
              Cardinality({i \in 1..Len(tk) : MalformedRequest(tk[i].request)})

\* the increments each call makes when it is the only call of a new translator
AloneStats(request) == Translate(request, Stats(0, 0, Null)).stats

\* no increment is lost: the counters are the number of completed calls
\* that count a translation, and that count an error, when run alone
CountersAreSums ==
    /\ translations_count =
          Cardinality({i \in 1..Len(tk) :
              tk[i].state = "done" /\ AloneStats(tk[i].request).translations_count = 1})
    /\ errors_count =
          Cardinality({i \in 1..Len(tk) :
              tk[i].state = "done" /\ AloneStats(tk[i].request).errors_count = 1})

-----------------------------------------------------------------------------
(* Properties of the result processor (RpSpec) *)

\* C10: to_dict, and with_metadata built on it, hand back an independent copy
\* of a mapping payload: whatever is later changed in the returned mapping,
\* the metadata key of with_metadata included, the source payload stays as it
\* was when the operation was called.
C10_SourceUntouched ==
    (rp_op \in {"to_dict", "with_metadata", "utils_to_dict"} /\ IsDict(rp_src)) =>
        heap[SrcRef] = rp_src

\* the value the operation handed back
RetVal == heap[rp_ret]

\* C11: to_dict and process return a mapping for every payload; for a plain
\* text payload the mapping is either the parsed text or {result: text}, also
\* when the text parses as a number, a sequence or null.
C11_AlwaysMapping ==
    (rp_op \in {"to_dict", "process"} /\ rp_steps = 0) =>
        /\ rp_ret # 0
        /\ IsDict(RetVal)
        /\ IsStr(rp_src) =>
              \/ RetVal = Dict(<<KV("result", rp_src)>>)
              \/ json_loads(rp_src.s).ok /\ RetVal = json_loads(rp_src.s).val

\* C12: ResultProcessor.extract_text returns for every payload shape, and what
\* it returns is text or absent.
C12_ExtractTextTotal ==
    rp_op = "extract_text" => rp_ret # 0 /\ RetVal.k \in {"str", "null"}

\* the text fields of a sequence of mappings, in order, from position i on
RECURSIVE TextFieldsFrom(_, _)
TextFieldsFrom(xs, i) ==
    IF i > Len(xs) THEN ""
    ELSE (IF IsStr(DictAt(xs[i], "text")) THEN DictAt(xs[i], "text").s ELSE "?")
         \o TextFieldsFrom(xs, i + 1)

ContentOfTextMappings(v) ==
    /\ IsDict(v) /\ HasKey(v, "content") /\ IsList(DictAt(v, "content"))
    /\ \A i \in 1..Len(DictAt(v, "content").items) :
          LET item == DictAt(v, "content").items[i] IN
          IsDict(item) /\ HasKey(item, "text")

\* C13: for a mapping payload whose content is a sequence of mappings each
\* carrying a text field, extract_text returns the concatenation of those
\* text fields in order, whatever other keys the mapping has.
C13_ContentConcatenated ==
    (rp_op = "extract_text" /\ ContentOfTextMappings(rp_src)) =>
        /\ rp_ret # 0
        /\ RetVal = Str(TextFieldsFrom(DictAt(rp_src, "content").items, 1))

\* every element is a mapping with a type field, and text-typed elements
\* stand between elements of other types
TypedInterleaved(v) ==
    /\ IsList(v)
    /\ \A i \in 1..Len(v.items) : IsDict(v.items[i]) /\ HasKey(v.items[i], "type")
    /\ \E i \in 1..Len(v.items) : DictAt(v.items[i], "type") = Str("text")
    /\ \E i \in 1..Len(v.items) : DictAt(v.items[i], "type") # Str("text")
    /\ \A i \in 1..Len(v.items) :
          DictAt(v.items[i], "type") = Str("text") =>
              HasKey(v.items[i], "text") /\ IsStr(DictAt(v.items[i], "text"))

RECURSIVE TextTypedFrom(_, _)
TextTypedFrom(xs, i) ==
    IF i > Len(xs) THEN ""
    ELSE (IF DictAt(xs[i], "type") = Str("text") THEN DictAt(xs[i], "text").s ELSE "")
         \o TextTypedFrom(xs, i + 1)

\* C14: for a sequence of typed mappings in which text-typed elements are
\* interleaved with elements of other types, extract_text (of ResultProcessor
\* and of tools/utils alike) returns the texts of exactly the text-typed
\* elements, concatenated in order.
C14_TextTypedOnly ==
    (rp_op \in {"extract_text", "utils_extract_text"} /\ TypedInterleaved(rp_src)) =>
        /\ rp_ret # 0
        /\ RetVal = Str(TextTypedFrom(rp_src.items, 1))

\* C15: extract_text hands a text payload back as it is, and an absent
\* payload back as absent.
C15_TextIdentity ==
    (rp_op = "extract_text" /\ rp_src.k \in {"str", "null"}) =>
        rp_ret # 0 /\ RetVal = rp_src

C15_Witness ==
    rp_op = "extract_text" /\ rp_src = Str("") /\ rp_ret # 0 /\ RetVal = Str("")

\* C16: to_dict and process turn an absent payload into exactly
\* {error: "No result returned"}, which is_error recognises; and is_error is
\* true of a value exactly when the value is a mapping with an error key.
C16_AbsentIsError ==
    /\ (rp_op \in {"to_dict", "process"} /\ rp_steps = 0 /\ rp_src = Null) =>
          /\ rp_ret # 0
          /\ RetVal = Dict(<<KV("error", Str("No result returned"))>>)
          /\ is_error(RetVal)
    /\ rp_op = "is_error" =>
          /\ rp_ret # 0
          /\ RetVal = Bool(/\ rp_src.k = "dict"
                           /\ \E i \in 1..Len(rp_src.pairs) : rp_src.pairs[i].key = "error")

C16_Witness ==
    /\ rp_op = "is_error" /\ rp_ret # 0
    /\ rp_src = Dict(<<KV("error", Null)>>)
    /\ RetVal = Bool(TRUE)

\* the texts of the text-carrying mappings of a sequence, from position i on
RECURSIVE CarriedTextsFrom(_, _)
CarriedTextsFrom(xs, i) ==
    IF i > Len(xs) THEN ""
    ELSE (IF IsDict(xs[i]) /\ HasKey(xs[i], "text")
          THEN (IF IsStr(DictAt(xs[i], "text")) THEN DictAt(xs[i], "text").s ELSE "?")
          ELSE "")
         \o CarriedTextsFrom(xs, i + 1)

\* the extraction patterns of a mapping
ContentOfTexts(v) ==
    /\ HasKey(v, "content") /\ IsList(DictAt(v, "content"))
    /\ \E i \in 1..Len(DictAt(v, "content").items) :
          LET item == DictAt(v, "content").items[i] IN
          IsDict(item) /\ HasKey(item, "text")

ContentPlainText(v) == HasKey(v, "content") /\ IsStr(DictAt(v, "content"))

\* the stated order of the rules, on a mapping whose result (if any) is text,
\* absent, or again such a mapping
RECURSIVE FirstApplicableRule(_)
FirstApplicableRule(v) ==
    IF ~IsDict(v) THEN v
    ELSE IF ContentOfTexts(v) THEN Str(CarriedTextsFrom(DictAt(v, "content").items, 1))
    ELSE IF ContentPlainText(v) THEN DictAt(v, "content")
    ELSE IF HasKey(v, "result") THEN FirstApplicableRule(DictAt(v, "result"))
    ELSE IF HasKey(v, "text") THEN DictAt(v, "text")
    ELSE Str(json_dumps(v))

SeveralPatterns(v) ==
    /\ IsDict(v)
    /\ Cardinality({r \in {"content", "result", "text"} :
            \/ r = "content" /\ (ContentOfTexts(v) \/ ContentPlainText(v))
            \/ r # "content" /\ HasKey(v, r)}) >= 2
    /\ HasKey(v, "result") => DictAt(v, "result").k \in {"str", "null", "dict"}

\* C29: for a mapping payload that satisfies several extraction patterns at
\* once, extract_text (of ResultProcessor and of tools/utils) applies the first
\* applicable rule in the order content as a sequence of text-carrying
\* mappings, content as plain text, result (recursively), text, serialization:
\* content wins over result and text, and result wins over text.
C29_FirstApplicableRule ==
    (rp_op \in {"extract_text", "utils_extract_text"} /\ SeveralPatterns(rp_src)) =>
        /\ rp_ret # 0
        /\ RetVal = FirstApplicableRule(rp_src)

\* the same, of ResultProcessor.extract_text alone
ResultProcessorOrder ==
    (rp_op = "extract_text" /\ SeveralPatterns(rp_src)) =>
        /\ rp_ret # 0
        /\ RetVal = FirstApplicableRule(rp_src)

\* a sequence of typed mappings with a text-typed one whose text is not text
ConcatenationFails(v) ==
    /\ IsList(v)
    /\ \A i \in 1..Len(v.items) : IsDict(v.items[i]) /\ HasKey(v.items[i], "type")
    /\ \E i \in 1..Len(v.items) :
          /\ DictAt(v.items[i], "type") = Str("text")
          /\ HasKey(v.items[i], "text") /\ ~IsStr(DictAt(v.items[i], "text"))

\* the message of the exception that "".join raises on those text fields
JoinFailure(v) == Join(TypedTextParts(v.items)).msg

\* C30: process never raises: it returns for every payload, and when the
\* concatenation of content blocks fails on a text field that is not text it
\* returns {error: "Error processing result: <message>"}, on which is_error
\* is true.
C30_ProcessNeverRaises ==
    (rp_op = "process" /\ rp_steps = 0) =>
        /\ rp_ret # 0
        /\ ConcatenationFails(rp_src) =>
              /\ RetVal = Dict(<<KV("error",
                                   Str("Error processing result: " \o JoinFailure(rp_src)))>>)
              /\ is_error(RetVal)

C30_Witness ==
    /\ rp_op = "process" /\ rp_steps = 0
    /\ rp_src = List(<<TextItem(Num(5))>>)
    /\ rp_ret # 0
    /\ RetVal = Dict(<<KV("error", Str("Error processing result: "
                  \o "sequence item 0: expected str instance, int found"))>>)

-----------------------------------------------------------------------------
(* Properties of the gateway client (GcSpec) *)

\* the two ways an exchange fails: no response, or a response with an error field
TransportFailed(x) == x.kind = "http_error"
ErrorFieldIn(x) ==
    x.kind = "json" /\ \E i \in 1..Len(x.body.pairs) : x.body.pairs[i].key = "error"
ExchangeFailed(x) == x.kind # "json" \/ ErrorFieldIn(x)

\* C17: search_notes, ask_slite and get_note return the result field of the
\* response when the exchange succeeds, and end in a failure, not in an
\* ordinary return value, when call_method fails.
C17_FailurePropagated ==
    gc_op \in {"search_notes", "ask_slite", "get_note"} =>
        IF ExchangeFailed(gc_exchange) THEN ~gc_out.ok
        ELSE /\ gc_out.ok
             /\ HasKey(gc_exchange.body, "result") =>
                   gc_out.val = DictAt(gc_exchange.body, "result")

PrevCallMethod == gc_prev # None /\ gc_prev.op = "call_method"

\* one call failed because of the transport, the other because of an error field
FailedBothWays ==
    /\ gc_op = "call_method" /\ PrevCallMethod
    /\ \/ TransportFailed(gc_prev.exchange) /\ ErrorFieldIn(gc_exchange)
       \/ ErrorFieldIn(gc_prev.exchange) /\ TransportFailed(gc_exchange)

\* C18 as stated: call_method does one exchange, fails on a transport failure
\* and on an error field, and the two failures are of different kinds.
C18_Original ==
    /\ gc_op = "call_method" =>
          /\ Len(gc_sent) = 1
          /\ (TransportFailed(gc_exchange) \/ ErrorFieldIn(gc_exchange)) => ~gc_out.ok
    /\ FailedBothWays => gc_out.exc # gc_prev.out.exc

\* C18: call_method does one request/response exchange and fails towards its
\* caller on a transport failure and on an error field alike; both failures
\* are ValueError, told apart by their message only: "HTTP error: <cause>"
\* for the transport, "Slite-MCP error: <message>" for an error mapping.
C18_OneKind ==
    /\ gc_op = "call_method" =>
          /\ Len(gc_sent) = 1
          /\ TransportFailed(gc_exchange) =>
                gc_out = [ok |-> FALSE, exc |-> "ValueError",
                          msg |-> "HTTP error: " \o gc_exchange.msg]
          /\ ErrorFieldIn(gc_exchange) =>
                /\ ~gc_out.ok
                /\ gc_out.exc = "ValueError"
                /\ LET error == DictAt(gc_exchange.body, "error") IN
                   IsDict(error) =>
                       gc_out.msg = "Slite-MCP error: " \o
                           (IF HasKey(error, "message")
                            THEN py_str(DictAt(error, "message")) ELSE "Unknown error")
    /\ FailedBothWays =>
          gc_out.exc = gc_prev.out.exc /\ gc_out.msg # gc_prev.out.msg

C18_Witness ==
    /\ FailedBothWays
    /\ TransportFailed(gc_prev.exchange)
    /\ gc_prev.out.exc = "ValueError" /\ gc_out.exc = "ValueError"
    /\ gc_out.msg = "Slite-MCP error: not found"

-----------------------------------------------------------------------------
(* Properties of the requests of a run (Spec) and of two runs (CmpSpec) *)

\* a result mapping without the two keys of the reasoning disclosure
WithoutReasoning(d) ==
    Dict(SelectSeq(d.pairs, LAMBDA p : p.key \notin {"reasoning", "knowledge_result"}))

IsPrefix(xs, ys) == Len(xs) <= Len(ys) /\ xs = SubSeq(ys, 1, Len(xs))

\* the recorded answer the second run is waiting for is of the kind it asks for
NextAnswerFits ==
    /\ Len(answers) < Len(cmp_first.answers)
    /\ LET kind == cmp_first.answers[Len(answers) + 1].kind IN
       CASE pc = "model1" -> kind \in {"first_reply", "model_error"}
         [] pc \in {"gw_init", "gw_ask"} -> kind = "exchange"
         [] pc = "model2" -> kind \in {"follow_reply", "model_error"}

\* C19: reasoning disclosure is purely additive. With the same query, the
\* same forcing and the same answers of the model endpoint and the gateway,
\* the run with show_reasoning on issues the same sequence of external
\* requests and returns the same result as the run with it off, except that
\* its result may also carry reasoning and knowledge_result.
C19_ReasoningAdditive ==
    cmp_run = 2 =>
        /\ IsPrefix(requests, cmp_first.requests)
        /\ pc \notin {"start", "done"} => NextAnswerFits
        /\ pc = "done" =>
              /\ requests = cmp_first.requests
              /\ answers = cmp_first.answers
              /\ raised = cmp_first.raised
              /\ ~raised =>
                    LET on == IF show_reasoning THEN result ELSE cmp_first.result
                        off == IF show_reasoning THEN cmp_first.result ELSE result
                    IN WithoutReasoning(on) = off

C19_Witness ==
    /\ cmp_run = 2 /\ pc = "done" /\ show_reasoning
    /\ Len(requests) = 4
    /\ HasKey(result, "reasoning") /\ HasKey(result, "knowledge_result")
    /\ ~HasKey(cmp_first.result, "reasoning")
    /\ DictAt(result, "response") = DictAt(cmp_first.result, "response")

\* C20: the first model request carries tool_choice exactly when the caller
\* forces tool use, and then it is {type: "tool", name: "company_knowledge"};
\* the follow-up model request never carries tool_choice.
C20_ToolChoice ==
    \A i \in 1..Len(requests) :
        requests[i].to = "model" =>
            requests[i].tool_choice =
                (IF i = 1 /\ force_tool_use
                 THEN Dict(<<KV("type", Str("tool")), KV("name", Str("company_knowledge"))>>)
                 ELSE Null)

C20_Witness ==
    /\ pc = "done" /\ force_tool_use
    /\ Len(requests) = 4
    /\ requests[1].to = "model" /\ requests[1].tool_choice # Null
    /\ requests[4].to = "model" /\ requests[4].tool_choice = Null

\* to whom each request of the run went, in order
Destinations == [i \in 1..Len(requests) |-> requests[i].to]

\* C21 as stated: at most two model requests and at most one gateway round
\* trip, in the order model, gateway, model; the second model request only
\* after the gateway round trip has returned.
C21_Original ==
    /\ Len(ModelRequests) <= 2
    /\ Len(GatewayRequests) <= 1
    /\ IsPrefix(Destinations, <<"model", "gateway", "model">>)
    /\ Len(ModelRequests) = 2 => gw_outcome # None

\* C21: a run sends at most two requests to the model endpoint and makes at
\* most two round trips to the gateway, the initialize handshake and then the
\* tools/call, strictly in the order first model request, initialize,
\* tools/call, second model request; the second model request is sent only
\* after the tools/call round trip of the same run has returned.
C21_RoundTrips ==
    /\ Len(ModelRequests) <= 2
    /\ Len(GatewayRequests) <= 2
    /\ IsPrefix(Destinations, <<"model", "gateway", "gateway", "model">>)
    /\ IsPrefix([i \in 1..Len(GatewayRequests) |-> GatewayRequests[i].method],
                <<"initialize", "tools/call">>)
    /\ Len(ModelRequests) = 2 =>
          /\ gw_outcome # None
          /\ Len(answers) >= 3
          /\ answers[2].kind = "exchange" /\ answers[3].kind = "exchange"
          /\ answers[3].exchange = gw_outcome

C21_Witness ==
    /\ Done /\ Destinations = <<"model", "gateway", "gateway", "model">>
    /\ gw_outcome # None /\ followup # None

\* the follow-up model requests of the run (every model request but the first)
FollowupRequests ==
    {requests[i] : i \in {j \in 2..Len(requests) : requests[j].to = "model"}}

\* C22: the follow-up model request carries exactly three messages, in this
\* order: the user's query, an assistant message with the content blocks of
\* the first response unchanged and in the same order, and a user message
\* with one tool_result block whose tool_use_id is the id of the first
\* tool_use block of the first response.
C22_FollowupMessages ==
    \A r \in FollowupRequests :
        /\ Len(r.messages) = 3
        /\ r.messages[1].role = "user" /\ r.messages[1].content = Str(query)
        /\ r.messages[2].role = "assistant"
        /\ r.messages[2].content.blocks = response.content
        /\ r.messages[3].role = "user"
        /\ Len(r.messages[3].content.blocks) = 1
        /\ r.messages[3].content.blocks[1].type = "tool_result"
        /\ r.messages[3].content.blocks[1].tool_use_id = ToolUses[1].id

C22_Witness ==
    /\ pc = "model2"
    /\ response.content =
          <<TextBlock("a"), ToolUseBlock("tu1", KnowledgeToolName,
                                         Dict(<<KV("query", Str("office hours"))>>))>>
    /\ \E r \in FollowupRequests :
          /\ r.messages[2].content.blocks = response.content
          /\ r.messages[3].content.blocks[1].tool_use_id = "tu1"

\* C23: when the gateway call succeeds, the tool_result content of the
\* follow-up request is ResultProcessor.extract_text of the gateway payload;
\* for a payload whose content has several text blocks, their concatenation
\* in order.
C23_ToolResultIsExtractText ==
    GatewaySucceeded =>
        \A tr \in SentToolResults :
            LET out == extract_text(slite_ask(gw_outcome)) IN
            out.ok /\ tr.content = out.val

\* positions in the answers at which a request to the model endpoint failed
ModelFailures == {i \in 1..Len(answers) : answers[i].kind = "model_error"}

\* C24: when a request to the model endpoint fails, the first or the
\* follow-up, the run ends in Error with a result whose error text carries
\* the exception message, and no request is issued after the failure: every
\* request of the run was sent before it, and the failed one is not sent again.
C24_ModelFailureEndsRun ==
    \A i \in ModelFailures :
        /\ Done /\ ~raised
        /\ i = Len(answers) /\ Len(requests) = i
        /\ result =
              Dict(<<KV("error",
                        Str((IF variant = "claude" /\ i > 1
                             THEN "Error querying knowledge base: "
                             ELSE "Error calling Claude API: ") \o answers[i].msg))>>)

C24_Witness ==
    /\ Done /\ ModelFailures = {4} /\ Len(requests) = 4
    /\ result = Dict(<<KV("error", Str("Error calling Claude API: overloaded"))>>)

-----------------------------------------------------------------------------
(* Properties of concurrent runs (ConcSpec) *)

\* the local state of run r, executing or suspended
RunContext(r) == IF r = conc_cur THEN Locals ELSE conc_saved[r]

\* what a run with the inputs of c returns when it runs alone and is given
\* the answers c received: the steps of the run applied one after the other
AloneOutcome(c) ==
    LET a == c.answers
        claude == c.variant = "claude" IN
    IF ~c.api_key THEN Return(ErrorResult("Claude API key not found"))
    ELSE IF a[1].kind = "model_error" THEN CatchOuter(Raise(a[1].msg))
    ELSE LET resp == a[1].response
             i == FirstToolUse(resp.content) IN
         IF resp.stop_reason # "tool_use" THEN Return(PlainResult(resp))
         ELSE IF i = 0 \/ resp.content[i].name # KnowledgeToolName
         THEN Return(ErrorResult("Unsupported tool requested: "
                         \o (IF i # 0 THEN resp.content[i].name ELSE "None")))
         ELSE LET kbq == DictGet(resp.content[i].input, "query", Str(c.query))
                  payload == slite_ask(a[3].exchange)
                  text == IF claude THEN ClaudeResultText(payload)
                          ELSE DirectResultText(payload)
              IN IF ~text.ok
                 THEN CatchOuter(IF claude THEN CatchInner(text) ELSE text)
                 ELSE IF a[4].kind = "model_error"
                 THEN CatchOuter(IF claude THEN CatchInner(Raise(a[4].msg))
                                 ELSE Raise(a[4].msg))
                 ELSE Return(ToolResult(c.variant, resp, a[4].content, kbq,
                                        ToolResultBlock(resp.content[i].id, text.val),
                                        c.show_reasoning))

\* the knowledge query of a run: the one its own first response asked for,
\* or its own user query
OwnKnowledgeQuery(c) ==
    LET uses == SelectSeq(c.response.content, LAMBDA b : b.type = "tool_use") IN
    IF HasKey(uses[1].input, "query") THEN DictAt(uses[1].input, "query")
    ELSE Str(c.query)

\* the follow-up request of c is made of c's own query, first response,
\* tool_use id and of the gateway's answer to c's own knowledge query
OwnFollowup(c) ==
    LET r == c.requests[4]
        uses == SelectSeq(c.response.content, LAMBDA b : b.type = "tool_use")
        tr == r.messages[3].content.blocks[1] IN
    /\ r.to = "model"
    /\ r.messages[1].content = Str(c.query)
    /\ r.messages[2].content.blocks = c.response.content
    /\ tr.tool_use_id = uses[1].id
    /\ DictAt(DictAt(c.requests[3].params, "arguments"), "question") = OwnKnowledgeQuery(c)
    /\ c.gw_outcome.kind = "json" =>
          /\ c.gw_outcome = AnswerAbout(OwnKnowledgeQuery(c))
          /\ tr.content = Str("about " \o OwnKnowledgeQuery(c).s)

\* C25: when several runs execute concurrently and interleave at their
\* gateway calls, each run's follow-up request carries that run's own query,
\* first-response blocks, tool_use_id and the gateway result for its own
\* knowledge query, and each run returns what it would return alone.
C25_RunsIndependent ==
    \A r \in Runs :
        LET c == RunContext(r) IN
        /\ c.query = RunQuery(r)
        /\ Len(c.requests) = 4 => OwnFollowup(c)
        /\ c.pc = "done" => ~c.raised /\ c.result = AloneOutcome(c).val

C25_Witness ==
    /\ conc_cur = 2 /\ pc = "done" /\ Len(requests) = 4
    /\ conc_saved[1].pc = "gw_ask"
    /\ kb_query # conc_saved[1].kb_query
    /\ gw_outcome = AnswerAbout(Str("lunch?"))
    /\ tool_result.content = Str("about lunch?")

\* a single run returns what the steps of the run applied in sequence give
AloneOutcomeIsTheRun ==
    Done => (~raised /\ result = AloneOutcome(Locals).val)

====
